---- MODULE Spec2Model ----
(***************************************************************************)
(* Streaming hash join executor (rust/stream/src/executor/hash_join.rs):   *)
(* two upstream channels, the barrier aligner, the two per-side hash       *)
(* tables of join state, the state store, and the messages returned by     *)
(* HashJoinExecutor::next.                                                 *)
(*                                                                         *)
(* Rows have two i64 columns <<k, v>>; column 0 is the join key and the    *)
(* pk is (0, 1), as in the executor's tests.  A NULL datum is Null.        *)
(***************************************************************************)
EXTENDS Integers, Sequences, FiniteSets, TLC

\* ---------------------------------------------------------------- bounds
MaxKey == 2
MaxVal == 2
MaxChunkLen == 1
MaxSteps == 3
MaxInvalid == 1
MaxJoinSteps == 4
MaxEpoch == 1
MaxQueue == 2
MaxPipeSteps == 1
MaxPipeEpoch == 2
MaxFields == 2
MaxNullSteps == 3
MaxOrderSteps == 1
MaxOrderEpoch == 1
MaxProtoSteps == 1
MaxProtoEpoch == 2
MaxActor == 2
MaxInfos == 1
MaxWireEpoch == 2
MaxMutationEpoch == 2
MaxMutationSteps == 1
MaxPk == 2
MaxWireRows == 1
MaxInitEpoch == 3
MaxItems == 3
MaxUpdateSteps == 4
MaxUpdateLen == 2
MaxCell == 2
EpochBits == 4

\* ------------------------------------------------------- program constants
Inner == 0
LeftOuter == 1
RightOuter == 2
FullOuter == 3
JoinTypes == {Inner, LeftOuter, RightOuter, FullOuter}

Left == 0
Right == 1
Sides == {Left, Right}
Other(side) == IF side = Left THEN Right ELSE Left

Null == 0
NoBarrier == 0

InsertOps == {"Insert", "UpdateInsert"}
DeleteOps == {"Delete", "UpdateDelete"}
Ops == InsertOps \cup DeleteOps

\* number of columns of each input (schema of the tests: two i64 columns)
SideColumnN == 2
\* JoinParams::new(vec![0]); MockAsyncSource::with_pk_indices(.., vec![0, 1])
key_indices == <<0>>
pk_indices == <<0, 1>>

\* ------------------------------------------------------------------ schemas
\* a data type is a kind created nullable or not (Int64Type::create(false))
DataTypes == [kind : {"Int32", "Int64"}, nullable : BOOLEAN]

\* Field { data_type }
Fields == [data_type : DataTypes]

Schemas == UNION {[1..n -> Fields] : n \in 1..MaxFields}

\* the schema of the executor's tests: two non-nullable i64 columns
TestSchema ==
    [i \in 1..SideColumnN |-> [data_type |-> [kind |-> "Int64", nullable |-> FALSE]]]

\* the same columns with a nullable join key column
NullableKeySchema ==
    [i \in 1..SideColumnN |->
        [data_type |-> [kind |-> "Int64", nullable |-> (i - 1 = key_indices[1])]]]

schema_fields_LeftFirst(input_l, input_r) == input_l \o input_r

\* HashJoinExecutor::new: input_r's fields chained with input_l's fields
schema_fields(input_l, input_r) == input_r \o input_l

\* the data type of each field of the output schema, in the schema's order
column_datatypes(fields) == [i \in 1..Len(fields) |-> fields[i].data_type]

\* the values a column of the data type holds
Datums(data_type, max) == (IF data_type.nullable THEN {Null} ELSE {}) \cup (1..max)

\* the rows an input of the schema can carry
SchemaRows(fields) ==
    {<<k, v>> : k \in Datums(fields[1].data_type, MaxKey),
                v \in Datums(fields[2].data_type, MaxVal)}

\* ----------------------------------------------------------------- barriers
ActorIds == 1..MaxActor

\* every actor of the model has the one dispatcher
DispatcherIds == {1}

\* ActorInfo { actor_id, .. }
ActorInfos == [actor_id : ActorIds]

\* HashMap<(ActorId, DispatcherId), Vec<ActorInfo>>
OutputMaps ==
    UNION {[keys -> UNION {[1..n -> ActorInfos] : n \in 0..MaxInfos}] :
              keys \in SUBSET (ActorIds \X DispatcherIds)}

\* Option<Arc<Mutation>>: None
NoMutation == [kind |-> "None", actors |-> {}, outputs |-> <<>>]

\* Mutation::Stop(HashSet<ActorId>)
Stop(actors) == [kind |-> "Stop", actors |-> actors, outputs |-> <<>>]

\* Mutation::UpdateOutputs(map)
UpdateOutputs(map) == [kind |-> "UpdateOutputs", actors |-> {}, outputs |-> map]

\* Mutation::AddOutput(map)
AddOutput(map) == [kind |-> "AddOutput", actors |-> {}, outputs |-> map]

Mutations ==
    {NoMutation} \cup {Stop(a) : a \in SUBSET ActorIds}
        \cup {UpdateOutputs(m) : m \in OutputMaps}
        \cup {AddOutput(m) : m \in OutputMaps}

\* Epoch::new(curr, prev): curr > prev
Epochs(max) == {e \in [curr : 1..max, prev : 0..max] : e.curr > e.prev}

\* tracing::Span: none, or a span that traces the barrier
Spans == {"none", "barrier"}

\* Barrier { epoch, mutation, span }
Barriers(max) == [epoch : Epochs(max), mutation : Mutations, span : Spans]

\* ------------------------------------------------------------- predicates
outer_side_keep_NoRight(join_type, side_type) ==
    \/ join_type = FullOuter
    \/ (join_type = LeftOuter /\ side_type = Left)

outer_side_keep(join_type, side_type) ==
    \/ join_type = FullOuter
    \/ (join_type = LeftOuter /\ side_type = Left)
    \/ (join_type = RightOuter /\ side_type = Right)

outer_side_null_AsKeep(join_type, side_type) == outer_side_keep(join_type, side_type)

outer_side_null(join_type, side_type) ==
    \/ join_type = FullOuter
    \/ (join_type = LeftOuter /\ side_type = Right)
    \/ (join_type = RightOuter /\ side_type = Left)

\* ---------------------------------------------------------------- helpers
Project(row, indices) == [i \in 1..Len(indices) |-> row[indices[i] + 1]]

hash_key_from_row_ref(row) == Project(row, key_indices)

PkOf(row) == Project(row, pk_indices)

\* lexicographic order on datum tuples of equal length
RowLess(a, b) ==
    \E i \in 1..Len(a) :
        /\ a[i] < b[i]
        /\ \A j \in 1..(i - 1) : a[j] = b[j]

RECURSIVE SortedByPk(_)
SortedByPk(S) ==
    IF S = {} THEN <<>>
    ELSE LET m == CHOOSE r \in S : \A x \in S \ {r} : RowLess(PkOf(r), PkOf(x))
         IN <<m>> \o SortedByPk(S \ {m})

RECURSIVE Flatten(_)
Flatten(ss) == IF ss = <<>> THEN <<>> ELSE Head(ss) \o Flatten(Tail(ss))

MapPut(f, k, v) == [x \in DOMAIN f \cup {k} |-> IF x = k THEN v ELSE f[x]]

EmptyMap == [x \in {} |-> 0]

\* ------------------------------------------------- per-key join state entry
\* An entry holds the in-memory map pk -> row (cached) and the flush buffer:
\* pending puts (rows) and pending tombstones (pks).
create_hash_join_state(key, st) ==
    [cached |-> {r \in st : hash_key_from_row_ref(r) = key},
     puts |-> {},
     dels |-> {}]

StateInsert(e, row) ==
    [cached |-> {r \in e.cached : PkOf(r) # PkOf(row)} \cup {row},
     puts |-> {r \in e.puts : PkOf(r) # PkOf(row)} \cup {row},
     dels |-> e.dels]

StateRemove(e, pk) ==
    [cached |-> {r \in e.cached : PkOf(r) # pk},
     puts |-> {r \in e.puts : PkOf(r) # pk},
     dels |-> IF \E r \in e.puts : PkOf(r) = pk THEN e.dels ELSE e.dels \cup {pk}]

StateValues(e) == SortedByPk(e.cached)

StateIsEmpty(e) == e.cached = {}

\* the rows of the store after the entry's pending mutations are written
StateFlush(e, st) ==
    {r \in st : PkOf(r) \notin e.dels /\ \A p \in e.puts : PkOf(p) # PkOf(r)}
        \cup e.puts

StateFlushed_Evict(e) == [cached |-> {}, puts |-> {}, dels |-> {}]

\* the entry after flush: the pending buffer is cleared, the rows stay
StateFlushed(e) == [cached |-> e.cached, puts |-> {}, dels |-> {}]

\* ------------------------------------------------------ StreamChunkBuilder
new_column_n == SideColumnN + SideColumnN

start_pos_Swapped(side) == IF side = Left THEN SideColumnN ELSE 0

start_pos(side) == IF side = Left THEN 0 ELSE SideColumnN

NullRow(n) == [i \in 1..n |-> Null]

\* the output row whose columns [upos, upos + |upd|) carry upd and whose
\* columns [mpos, mpos + |mat|) carry mat
BuildRow(upos, upd, mpos, mat) ==
    [c \in 1..new_column_n |->
        IF c - 1 >= upos /\ c - 1 < upos + Len(upd) THEN upd[c - upos]
        ELSE IF c - 1 >= mpos /\ c - 1 < mpos + Len(mat) THEN mat[c - mpos]
        ELSE Null]

append_row(upos, mpos, op, row_update, row_matched) ==
    <<op, BuildRow(upos, row_update, mpos, row_matched)>>

append_row_update(upos, mpos, op, row_update) ==
    <<op, BuildRow(upos, row_update, mpos, NullRow(new_column_n - Len(row_update)))>>

append_row_matched(upos, mpos, op, row_matched) ==
    <<op, BuildRow(upos, NullRow(new_column_n - Len(row_matched)), mpos, row_matched)>>

\* StreamChunkBuilder::finish: one column per column builder, that is per
\* data type the builder was created with, and the ops
finish(data_types, rows) ==
    [ops |-> [i \in 1..Len(rows) |-> rows[i][1]],
     columns |-> [c \in 1..Len(data_types) |-> [i \in 1..Len(rows) |-> rows[i][2][c]]]]

\* ---------------------------------------------------------- eq_join_oneside
\* The state update of one row on the update side's hash table su (st is the
\* update side's store): an insert op creates the entry when it is vacant and
\* inserts the row, a delete op removes the pk from an existing entry.
UpdateSide(su, st, op, row) ==
    LET key == hash_key_from_row_ref(row)
    IN IF op \in InsertOps
       THEN MapPut(su, key,
                StateInsert(IF key \in DOMAIN su THEN su[key]
                            ELSE create_hash_join_state(key, st), row))
       ELSE IF key \in DOMAIN su
            THEN MapPut(su, key, StateRemove(su[key], PkOf(row)))
            ELSE su

InsertRetraction_Swapped(upos, mpos, row, matched_rows) ==
    Flatten([i \in 1..Len(matched_rows) |->
        <<append_row(upos, mpos, "UpdateInsert", row, matched_rows[i]),
          append_row_matched(upos, mpos, "UpdateDelete", matched_rows[i])>>])

\* first insert under a key on an outer-null side: the NULL-padded rows of the
\* matched rows are replaced
InsertRetraction(upos, mpos, row, matched_rows) ==
    Flatten([i \in 1..Len(matched_rows) |->
        <<append_row_matched(upos, mpos, "UpdateDelete", matched_rows[i]),
          append_row(upos, mpos, "UpdateInsert", row, matched_rows[i])>>])

DeleteRetraction_AsInsert(upos, mpos, row, matched_rows) ==
    Flatten([i \in 1..Len(matched_rows) |->
        <<append_row_matched(upos, mpos, "UpdateDelete", matched_rows[i]),
          append_row(upos, mpos, "UpdateInsert", row, matched_rows[i])>>])

\* the delete emptied the entry on an outer-null side: the matched rows become
\* NULL-padded again
DeleteRetraction(upos, mpos, row, matched_rows) ==
    Flatten([i \in 1..Len(matched_rows) |->
        <<append_row(upos, mpos, "UpdateDelete", row, matched_rows[i]),
          append_row_matched(upos, mpos, "UpdateInsert", matched_rows[i])>>])

\* the ordinary join echo
JoinEcho(T, SIDE, op, row, matched_rows, null_row_updated) ==
    IF ~outer_side_null(T, SIDE) \/ ~null_row_updated
    THEN [i \in 1..Len(matched_rows) |->
            append_row(start_pos(SIDE), start_pos(Other(SIDE)), op, row, matched_rows[i])]
    ELSE <<>>

UnmatchedOut_Null(T, SIDE, op, row) ==
    IF outer_side_null(T, SIDE)
    THEN <<append_row_update(start_pos(SIDE), start_pos(Other(SIDE)), op, row)>>
    ELSE <<>>

\* the row appended when there are no matched rows
UnmatchedOut(T, SIDE, op, row) ==
    IF outer_side_keep(T, SIDE)
    THEN <<append_row_update(start_pos(SIDE), start_pos(Other(SIDE)), op, row)>>
    ELSE <<>>

\* One iteration of the row loop when the match side has an entry for the key.
\* Yields the update side's new hash table and the rows appended to the builder.
JoinRowMatched(T, SIDE, su, sm, st, op, row) ==
    LET key == hash_key_from_row_ref(row)
        upos == start_pos(SIDE)
        mpos == start_pos(Other(SIDE))
        matched_rows == StateValues(sm[key])
        vacant == key \notin DOMAIN su
        after == UpdateSide(su, st, op, row)
        null_row_updated ==
            IF op \in InsertOps
            THEN vacant /\ outer_side_null(T, SIDE)
            ELSE ~vacant /\ outer_side_null(T, SIDE) /\ StateIsEmpty(after[key])
        retraction ==
            IF ~null_row_updated THEN <<>>
            ELSE IF op \in InsertOps
            THEN InsertRetraction(upos, mpos, row, matched_rows)
            ELSE DeleteRetraction(upos, mpos, row, matched_rows)
    IN [ht |-> after,
        out |-> retraction \o JoinEcho(T, SIDE, op, row, matched_rows, null_row_updated)]

\* One iteration of the row loop when the match side has no entry for the key.
JoinRowUnmatched(T, SIDE, su, st, op, row) ==
    [ht |-> UpdateSide(su, st, op, row),
     out |-> UnmatchedOut(T, SIDE, op, row)]

hash_eq_match(key, ht_side) == key \in DOMAIN ht_side

JoinRow(T, SIDE, su, sm, st, op, row) ==
    IF hash_eq_match(hash_key_from_row_ref(row), sm)
    THEN JoinRowMatched(T, SIDE, su, sm, st, op, row)
    ELSE JoinRowUnmatched(T, SIDE, su, st, op, row)

\* The row loop over a compacted chunk (a sequence of <<op, row>>): the update
\* side's final hash table and, per input row, the rows it appended.
RECURSIVE JoinChunk(_, _, _, _, _, _)
JoinChunk(T, SIDE, su, sm, st, chunk) ==
    IF chunk = <<>> THEN [ht |-> su, segs |-> <<>>]
    ELSE LET first == JoinRow(T, SIDE, su, sm, st, Head(chunk)[1], Head(chunk)[2])
             rest == JoinChunk(T, SIDE, first.ht, sm, st, Tail(chunk))
         IN [ht |-> rest.ht, segs |-> <<first.out>> \o rest.segs]

RECURSIVE Appended_Prepend(_, _, _, _, _, _, _)
Appended_Prepend(builder, T, SIDE, su, sm, st, chunk) ==
    IF chunk = <<>> THEN builder
    ELSE LET first == JoinRow(T, SIDE, su, sm, st, Head(chunk)[1], Head(chunk)[2])
         IN Appended_Prepend(first.out \o builder, T, SIDE, first.ht, sm, st, Tail(chunk))

\* The rows in stream_chunk_builder when the row loop is over: each iteration
\* appends its rows behind the rows the builder already holds.
RECURSIVE Appended(_, _, _, _, _, _, _)
Appended(builder, T, SIDE, su, sm, st, chunk) ==
    IF chunk = <<>> THEN builder
    ELSE LET first == JoinRow(T, SIDE, su, sm, st, Head(chunk)[1], Head(chunk)[2])
         IN Appended(builder \o first.out, T, SIDE, first.ht, sm, st, Tail(chunk))

\* ------------------------------------------------------------------- state
VARIABLES
    jtype,       \* the join type T the executor is instantiated with
    ht,          \* ht[side]: hash key -> entry (side_l.ht, side_r.ht)
    store,       \* store[side]: rows ingested under the side's keyspace
    chan,        \* chan[side]: messages sent by the upstream, not yet read
    barrier,     \* barrier[side]: epoch of the barrier the aligner holds, or NoBarrier
    out,         \* the message last returned by next
    acc,         \* output row -> net number of occurrences emitted so far
    cur,         \* cur[side]: rows the side's input stream currently holds
    invalid,     \* input chunks so far that held an invalid op (a pk inserted twice,
                 \* a delete of a row that is not present)
    steps,       \* input rows processed
    delivered,   \* delivered[side]: epochs of the barriers read from the side
    emitted,     \* epochs of the aligned barriers returned by next
    restarted,   \* a fresh executor was created over the same keyspace
    ht_orig,     \* hash tables of the executor that was never restarted
    out_orig,    \* the message the never-restarted executor returned last
    input_schema,          \* input_schema[side]: the fields of the side's input
    schema,                \* the executor's output schema (<<>> before new has run)
    new_column_datatypes,  \* the data types of the output column builders
    sent,        \* sent[side]: chunks the upstream has sent, counted modulo the window
    recv,        \* recv[side]: chunks of the side processed, counted modulo the window
    flush_result, \* how the last flush_data ended ("none" before the first)
    plan,        \* plan[e]: the mutation the barrier of epoch e is created with
    memtable,    \* ManagedMViewState: pk -> Some(row) | None, buffered
    kv,          \* the state store under the view's keyspace: key -> value
    batch,       \* the key-value operations the last flush put into its write batch
    latest,      \* pk -> the most recent put or delete called on the view state
    mview_result, \* how the last ManagedMViewState::flush ended
    message,     \* the stream message handed to to_protobuf
    prost,       \* the protobuf record to_protobuf built from it
    decoded,     \* the message from_protobuf built from the record
    executor_state, \* ExecutorV1State of a stateful executor
    received,    \* the message last passed to try_init_executor
    returned,    \* what that call returned
    first_barrier, \* the first barrier the executor was passed
    source,      \* the wrapped executor: its kind and the items it still yields
    v1_result,   \* what the last ExecutorV1::next on the wrapper returned
    yielded,     \* the items the v2 stream of the wrapper has yielded
    finished,    \* the v2 stream of the wrapper has ended
    entry,       \* one per-key join state entry: its rows in memory and its flush buffer
    keyspace_rows, \* the rows the store holds under the entry's key prefix
    all_cached,  \* the entry holds its full row set in memory (AllCached, not NotAll)
    reference,   \* the reference map of the entry: upsert on insert, erase on remove
    values_result, \* what the last values() of the entry yielded
    is_empty_result, \* what is_empty answered right after the last remove
    last_call,   \* the operation last called on the entry
    epoch_value, \* the Epoch the last call of Epoch's functions returned
    epoch_call   \* that call

schema_vars == <<input_schema, schema, new_column_datatypes>>

\* the state of the hash join executor, its inputs and its store
join_vars == <<jtype, ht, store, chan, barrier, out, acc, cur, invalid, steps,
               delivered, emitted, restarted, ht_orig, out_orig,
               input_schema, schema, new_column_datatypes, sent, recv, flush_result,
               plan>>

\* ManagedMViewState and its keyspace
mview_vars == <<memtable, kv, batch, latest, mview_result>>

\* one message on its way through to_protobuf / from_protobuf
wire_vars == <<message, prost, decoded>>

\* a StatefulExecutorV1
init_vars == <<executor_state, received, returned, first_barrier>>

\* an executor behind the v1 / v2 wrappers
compat_vars == <<source, v1_result, yielded, finished>>

\* what the model of one join state entry keeps
entry_vars == <<entry, keyspace_rows, all_cached, reference, values_result,
                is_empty_result, last_call>>

\* the units modelled on their own
\* what the model of Epoch keeps
epoch_vars == <<epoch_value, epoch_call>>

unit_vars == <<entry_vars, epoch_vars>>

\* what the hash join executor never touches
other_vars == <<plan, mview_vars, wire_vars, init_vars, compat_vars, unit_vars>>

vars == <<join_vars, mview_vars, wire_vars, init_vars, compat_vars, unit_vars>>

NoMessage ==
    [kind |-> "none", side |-> Left, input |-> <<>>, segs |-> <<>>, epoch |-> 0,
     after |-> 0, tag |-> 0, err |-> "none",
     mutation |-> NoMutation]

ChunkMessage_SkipEmpty(side, chunk, segs, after, tag) ==
    IF \A i \in 1..Len(segs) : segs[i] = <<>>
    THEN NoMessage
    ELSE [kind |-> "chunk", side |-> side, input |-> chunk, segs |-> segs, epoch |-> 0,
          after |-> after, tag |-> tag, err |-> "none", mutation |-> NoMutation]

\* Ok(Message::Chunk(new_chunk))
ChunkMessage(side, chunk, segs, after, tag) ==
    [kind |-> "chunk", side |-> side, input |-> chunk, segs |-> segs, epoch |-> 0,
     after |-> after, tag |-> tag, err |-> "none",
     mutation |-> NoMutation]

BarrierMessage(epoch) ==
    [kind |-> "barrier", side |-> Left, input |-> <<>>, segs |-> <<>>, epoch |-> epoch,
     after |-> 0, tag |-> 0, err |-> "none",
     mutation |-> NoMutation]

\* Err(e): the error next returns (epoch: the barrier being handled, if any)
ErrorMessage(e, epoch) ==
    [kind |-> "error", side |-> Left, input |-> <<>>, segs |-> <<>>, epoch |-> epoch,
     after |-> 0, tag |-> 0, err |-> e,
     mutation |-> NoMutation]

\* -------------------------------------------------------- ManagedMViewState
\* the schema of the view state's test: two i32 columns, pk column 0
MViewColumnN == 2

MViewPks == {<<k>> : k \in 1..MaxPk}

MViewRows == [1..MViewColumnN -> 1..MaxCell]

\* Option<Row>
Some(row) == [some |-> TRUE, cells |-> row]

None == [some |-> FALSE, cells |-> <<>>]

\* the big-endian bytes of n, width of them
BigEndian(n, width) == [i \in 1..width |-> (n \div (256 ^ (width - i))) % 256]

\* the bytes with the sign bit (the top bit of the first byte) flipped
SignFlipped(bytes) == [bytes EXCEPT ![1] = (@ + 128) % 256]

\* memcmp-ordered encoding of the pk, ascending: per i32 datum the big-endian
\* bytes with the sign bit flipped
serialize_pk(pk) ==
    Flatten([i \in 1..Len(pk) |-> SignFlipped(BigEndian(pk[i], 4))])

serialize_cell_idx(cell_idx) == BigEndian(cell_idx, 4)

\* one nullable value: a tag byte, then the value's bytes
serialize_cell(datum) == IF datum = Null THEN <<0>> ELSE <<1>> \o BigEndian(datum, 4)

\* format: [ pk_buf | cell_idx (4B) ]
CellKey(pk, cell_idx) == serialize_pk(pk) \o serialize_cell_idx(cell_idx)

CellOps_DeleteFirstOnly(pk, cells) ==
    IF cells.some
    THEN [i \in 1..MViewColumnN |->
            [op |-> "put", key |-> CellKey(pk, i - 1), value |-> serialize_cell(cells.cells[i])]]
    ELSE <<[op |-> "delete", key |-> CellKey(pk, 0), value |-> <<>>]>>

\* the operations of one memtable entry: per cell index a put of the cell's
\* value or a delete
CellOps(pk, cells) ==
    [i \in 1..MViewColumnN |->
        IF cells.some
        THEN [op |-> "put", key |-> CellKey(pk, i - 1), value |-> serialize_cell(cells.cells[i])]
        ELSE [op |-> "delete", key |-> CellKey(pk, i - 1), value |-> <<>>]]

\* the loop over memtable.drain()
RECURSIVE FlushOps(_, _)
FlushOps(pks, table) ==
    IF pks = {} THEN <<>>
    ELSE LET pk == CHOOSE x \in pks : TRUE
         IN CellOps(pk, table[pk]) \o FlushOps(pks \ {pk}, table)

\* batch.ingest: the operations applied to the store in order
RECURSIVE Ingest(_, _)
Ingest(st, ops) ==
    IF ops = <<>> THEN st
    ELSE Ingest(IF Head(ops).op = "put"
                THEN MapPut(st, Head(ops).key, Head(ops).value)
                ELSE [k \in DOMAIN st \ {Head(ops).key} |-> st[k]],
                Tail(ops))

\* ManagedMViewState::new over an empty keyspace
MViewInit ==
    /\ memtable = EmptyMap
    /\ kv = EmptyMap
    /\ batch = <<>>
    /\ latest = EmptyMap
    /\ mview_result = "none"

\* ManagedMViewState::put
Put(pk, value) ==
    /\ memtable' = MapPut(memtable, pk, Some(value))
    /\ latest' = MapPut(latest, pk, Some(value))
    /\ UNCHANGED <<kv, batch, mview_result>>
    /\ UNCHANGED <<join_vars, wire_vars, init_vars, compat_vars, unit_vars>>

\* ManagedMViewState::delete
Delete(pk) ==
    /\ memtable' = MapPut(memtable, pk, None)
    /\ latest' = MapPut(latest, pk, None)
    /\ UNCHANGED <<kv, batch, mview_result>>
    /\ UNCHANGED <<join_vars, wire_vars, init_vars, compat_vars, unit_vars>>

\* how a flush can end: Ok, an error of serialize_pk / serialize_cell_idx /
\* serialize_cell inside the loop, an error of batch.ingest
MViewOutcomes == {"ok", "fail_serialize", "fail_ingest"}

\* ManagedMViewState::flush.  memtable.drain() leaves the memtable empty
\* however the loop ends; a serialization error leaves the loop after the
\* operations of some entries (done) went into the batch, which is then
\* dropped.
Flush(outcome) ==
    /\ outcome = "fail_serialize" => memtable # EmptyMap
    /\ \E done \in SUBSET (DOMAIN memtable) :
        /\ outcome = "fail_serialize" => done # DOMAIN memtable
        /\ outcome # "fail_serialize" => done = DOMAIN memtable
        /\ batch' = FlushOps(done, memtable)
        /\ kv' = IF outcome = "ok" THEN Ingest(kv, batch') ELSE kv
    /\ memtable' = EmptyMap
    /\ mview_result' = outcome
    /\ UNCHANGED latest
    /\ UNCHANGED <<join_vars, wire_vars, init_vars, compat_vars, unit_vars>>

NextMView ==
    \/ \E pk \in MViewPks, value \in MViewRows : Put(pk, value)
    \/ \E pk \in MViewPks : Delete(pk)
    \/ \E outcome \in MViewOutcomes : Flush(outcome)

\* ------------------------------------------------- the protobuf wire format
\* the sequences that hold every element of S once: the orders in which a
\* HashSet or a HashMap can be iterated
Orders(S) ==
    {o \in [1..Cardinality(S) -> S] : \A i, j \in 1..Cardinality(S) : i # j => o[i] # o[j]}

\* DispatcherMutation { actor_id, dispatcher_id, info }
DispatcherMutations(map, o) ==
    [i \in 1..Len(o) |->
        [actor_id |-> o[i][1], dispatcher_id |-> o[i][2], info |-> map[o[i]]]]

\* ProstMutation of Barrier::to_protobuf, for each iteration order
mutation_to_protobuf(mutation) ==
    IF mutation.kind = "None"
    THEN {[kind |-> "Nothing", actors |-> <<>>, mutations |-> <<>>]}
    ELSE IF mutation.kind = "Stop"
    THEN {[kind |-> "Stop", actors |-> o, mutations |-> <<>>] : o \in Orders(mutation.actors)}
    ELSE IF mutation.kind = "UpdateOutputs"
    THEN {[kind |-> "Update", actors |-> <<>>,
           mutations |-> DispatcherMutations(mutation.outputs, o)] :
              o \in Orders(DOMAIN mutation.outputs)}
    ELSE {[kind |-> "Add", actors |-> <<>>,
           mutations |-> DispatcherMutations(mutation.outputs, o)] :
              o \in Orders(DOMAIN mutation.outputs)}

\* Barrier::to_protobuf: the records it can build (span: vec![])
barrier_to_protobuf(b) ==
    {[epoch |-> [curr |-> b.epoch.curr, prev |-> b.epoch.prev],
      mutation |-> pm,
      span |-> <<>>] : pm \in mutation_to_protobuf(b.mutation)}

\* .collect::<HashMap<(ActorId, DispatcherId), Vec<ActorInfo>>>()
RECURSIVE collect(_)
collect(mutations) ==
    IF mutations = <<>> THEN EmptyMap
    ELSE LET last == mutations[Len(mutations)]
         IN MapPut(collect(SubSeq(mutations, 1, Len(mutations) - 1)),
                   <<last.actor_id, last.dispatcher_id>>, last.info)

mutation_from_protobuf_AddAsUpdate(pm) ==
    IF pm.kind = "Nothing" THEN NoMutation
    ELSE IF pm.kind = "Stop" THEN Stop({pm.actors[i] : i \in 1..Len(pm.actors)})
    ELSE UpdateOutputs(collect(pm.mutations))

\* the match on prost.get_mutation() of Barrier::from_protobuf
mutation_from_protobuf(pm) ==
    IF pm.kind = "Nothing" THEN NoMutation
    ELSE IF pm.kind = "Stop" THEN Stop({pm.actors[i] : i \in 1..Len(pm.actors)})
    ELSE IF pm.kind = "Update" THEN UpdateOutputs(collect(pm.mutations))
    ELSE AddOutput(collect(pm.mutations))

\* Barrier::from_protobuf; span is the span the build creates for a barrier
\* read from the wire.  Epoch::new asserts curr > prev.
barrier_from_protobuf(pb, span) ==
    IF pb.epoch.curr > pb.epoch.prev
    THEN [kind |-> "Barrier",
          barrier |-> [epoch |-> [curr |-> pb.epoch.curr, prev |-> pb.epoch.prev],
                       mutation |-> mutation_from_protobuf(pb.mutation),
                       span |-> span]]
    ELSE [kind |-> "panic"]

\* the chunks a message carries: their ops
WireChunks == UNION {[1..n -> Ops] : n \in 0..MaxWireRows}

\* Message::Chunk / Message::Barrier
WireMessages ==
    {[kind |-> "Chunk", chunk |-> c] : c \in WireChunks}
        \cup {[kind |-> "Barrier", barrier |-> b] : b \in Barriers(MaxWireEpoch)}

\* Message::to_protobuf: StreamMessage::StreamChunk or StreamMessage::Barrier
message_to_protobuf(m) ==
    IF m.kind = "Chunk"
    THEN {[kind |-> "StreamChunk", stream_chunk |-> [cardinality |-> Len(m.chunk), ops |-> m.chunk]]}
    ELSE {[kind |-> "Barrier", barrier |-> pb] : pb \in barrier_to_protobuf(m.barrier)}

\* Message::from_protobuf
message_from_protobuf(pm, span) ==
    IF pm.kind = "StreamChunk"
    THEN [kind |-> "Chunk", chunk |-> SubSeq(pm.stream_chunk.ops, 1, pm.stream_chunk.cardinality)]
    ELSE barrier_from_protobuf(pm.barrier, span)

NotYet == [kind |-> "none"]

\* no message is on its way
WireIdle ==
    /\ message = [kind |-> "Chunk", chunk |-> <<>>]
    /\ prost = NotYet
    /\ decoded = NotYet

\* any message, not yet encoded
WireInit ==
    /\ message \in WireMessages
    /\ prost = NotYet
    /\ decoded = NotYet

ToProtobuf ==
    /\ prost = NotYet
    /\ prost' \in message_to_protobuf(message)
    /\ UNCHANGED <<message, decoded>>
    /\ UNCHANGED <<join_vars, mview_vars, init_vars, compat_vars, unit_vars>>

FromProtobuf ==
    /\ prost # NotYet
    /\ decoded = NotYet
    /\ \E span \in Spans : decoded' = message_from_protobuf(prost, span)
    /\ UNCHANGED <<message, prost>>
    /\ UNCHANGED <<join_vars, mview_vars, init_vars, compat_vars, unit_vars>>

NextWire == ToProtobuf \/ FromProtobuf

\* ------------------------------------------------------- StatefulExecutorV1
\* ExecutorV1State::Init / ExecutorV1State::Active(epoch)
StateInit == [tag |-> "Init", epoch |-> 0]

Active(epoch) == [tag |-> "Active", epoch |-> epoch]

\* the messages an executor is passed
InitMessages ==
    {[kind |-> "Chunk", chunk |-> <<>>]}
        \cup {[kind |-> "Barrier", barrier |-> [epoch |-> e, mutation |-> mu, span |-> "none"]] :
                  e \in Epochs(MaxInitEpoch), mu \in {NoMutation, Stop({})}}

try_init_executor_Reinit(state, msg) ==
    IF msg.kind = "Barrier"
    THEN [state |-> Active(msg.barrier.epoch.curr),
          ret |-> [kind |-> "Some", barrier |-> msg.barrier]]
    ELSE IF state.tag = "Init" THEN [state |-> state, ret |-> [kind |-> "panic"]]
    ELSE [state |-> state, ret |-> [kind |-> "None"]]

\* StatefulExecutorV1::try_init_executor: the new state and what is returned
try_init_executor(state, msg) ==
    IF state.tag = "Init"
    THEN IF msg.kind = "Barrier"
         THEN [state |-> Active(msg.barrier.epoch.curr),
               ret |-> [kind |-> "Some", barrier |-> msg.barrier]]
         ELSE [state |-> state, ret |-> [kind |-> "panic"]]
    ELSE [state |-> state, ret |-> [kind |-> "None"]]

\* no executor waits for its first barrier
StateIdle ==
    /\ executor_state = StateInit
    /\ received = NotYet
    /\ returned = NotYet
    /\ first_barrier = NotYet

\* a call of try_init_executor on the next message (none after a panic)
TryInit(msg) ==
    /\ returned.kind # "panic"
    /\ received' = msg
    /\ executor_state' = try_init_executor(executor_state, msg).state
    /\ returned' = try_init_executor(executor_state, msg).ret
    /\ first_barrier' = IF first_barrier = NotYet /\ msg.kind = "Barrier"
                         THEN msg
                         ELSE first_barrier
    /\ UNCHANGED <<join_vars, mview_vars, wire_vars, compat_vars, unit_vars>>

NextInit == \E msg \in InitMessages : TryInit(msg)

\* ------------------------------------------------------ the v1 / v2 wrappers
CompatMessages == {[kind |-> "Chunk"], [kind |-> "Barrier"]}

NoCause == [kind |-> "none"]

Ok(m) == [ok |-> TRUE, value |-> m]

Err(e) == [ok |-> FALSE, value |-> e]

\* ErrorCode::Eof.into()
Eof == [code |-> "Eof", cause |-> NoCause]

\* the other errors a v1 executor returns
V1Errors == {[code |-> "InternalError", cause |-> NoCause]}

\* the errors a v2 stream yields
V2Errors == {[kind |-> "Storage", cause |-> NoCause]}

\* RwError::from(StreamExecutorError)
RwErrorFrom(e) == [code |-> "StreamError", cause |-> e]

\* StreamExecutorError::executor_v1(RwError)
executor_v1(e) == [kind |-> "ExecutorV1", cause |-> e]

\* what the next of a v1 executor can return
V1Results == {Ok(m) : m \in CompatMessages} \cup {Err(e) : e \in V1Errors \cup {Eof}}

\* a v1 executor: the results of its calls of next
V1Executors == UNION {[1..n -> V1Results] : n \in 1..MaxItems}

\* a v2 stream: messages, then possibly one error, then the end
V2Streams ==
    UNION {{s \in [1..n -> {Ok(m) : m \in CompatMessages} \cup {Err(e) : e \in V2Errors}] :
                \A i \in 1..(n - 1) : s[i].ok} : n \in 0..MaxItems}

\* nothing is wrapped
CompatIdle ==
    /\ source = [kind |-> "v2", items |-> <<>>, pos |-> 0]
    /\ v1_result = NotYet
    /\ yielded = <<>>
    /\ finished = FALSE

\* ExecutorV1::v2() over a v1 executor, or over Executor::v1() of a v2 stream
CompatInit ==
    /\ source \in {[kind |-> "v1", items |-> x, pos |-> 0] : x \in V1Executors}
                    \cup {[kind |-> "v2", items |-> s, pos |-> 0] : s \in V2Streams}
    /\ v1_result = NotYet
    /\ yielded = <<>>
    /\ finished = FALSE

\* ExecutorV2AsV1::next on what stream.next() gives: Some(result) or None
v2_as_v1_next(polled) ==
    IF polled.some
    THEN IF polled.cells.ok THEN polled.cells ELSE Err(RwErrorFrom(polled.cells.value))
    ELSE Err(Eof)

\* stream.next() of the wrapped v2 stream
Polled == IF source.pos < Len(source.items) THEN Some(source.items[source.pos + 1]) ELSE None

\* self.0.next(): the next of the wrapped v1 executor
InnerNext ==
    IF source.kind = "v1" THEN source.items[source.pos + 1] ELSE v2_as_v1_next(Polled)

IsEof_Never(e) == FALSE

\* matches!(e.inner(), ErrorCode::Eof)
IsEof(e) == e.code = "Eof"

\* one turn of the loop of ExecutorV1AsV2::execute_inner: Eof ends the
\* stream, another error is yielded and ends it, a message is yielded
ExecuteInner ==
    /\ ~finished
    /\ source.kind = "v1" => source.pos < Len(source.items)
    /\ v1_result' = InnerNext
    /\ source' = [source EXCEPT !.pos = IF @ < Len(source.items) THEN @ + 1 ELSE @]
    /\ IF ~InnerNext.ok /\ IsEof(InnerNext.value)
       THEN yielded' = yielded /\ finished' = TRUE
       ELSE IF ~InnerNext.ok
       THEN /\ yielded' = Append(yielded, Err(executor_v1(InnerNext.value)))
            /\ finished' = TRUE
       ELSE /\ yielded' = Append(yielded, InnerNext)
            /\ finished' = FALSE
    /\ UNCHANGED <<join_vars, mview_vars, wire_vars, init_vars, unit_vars>>

\* ---------------------------------------------- one join state entry alone
\* the rows of one join key
EntryRows == {r \in SchemaRows(TestSchema) : hash_key_from_row_ref(r) = <<MaxKey>>}

\* no values() has run
NoValues == [done |-> FALSE, rows |-> <<>>]

\* a new entry over the rows an earlier run persisted under the key: either
\* the full set is in memory (AllCached) or none of it is (NotAll)
EntryInit ==
    /\ keyspace_rows \in SUBSET EntryRows
    /\ all_cached \in BOOLEAN
    /\ entry = [cached |-> IF all_cached THEN keyspace_rows ELSE {}, puts |-> {}, dels |-> {}]
    /\ reference = keyspace_rows
    /\ values_result = NoValues
    /\ is_empty_result = "none"
    /\ last_call = "new"

\* no entry is looked at on its own
EntryIdle ==
    /\ keyspace_rows = {}
    /\ all_cached = TRUE
    /\ entry = [cached |-> {}, puts |-> {}, dels |-> {}]
    /\ reference = {}
    /\ values_result = NoValues
    /\ is_empty_result = "none"
    /\ last_call = "new"

\* the materialized set: the persisted rows overlaid with the pending
\* mutations (tombstones hide, pending inserts replace)
Materialized(e, st) == StateFlush(e, st)

\* insert(row)
EntryInsert(row) ==
    /\ entry' = StateInsert(entry, row)
    /\ reference' = {r \in reference : PkOf(r) # PkOf(row)} \cup {row}
    /\ last_call' = "insert"
    /\ UNCHANGED <<keyspace_rows, all_cached, values_result, is_empty_result>>
    /\ UNCHANGED <<join_vars, mview_vars, wire_vars, init_vars, compat_vars, epoch_vars>>

\* is_empty() is synchronous: it answers from the rows in memory
EntryIsEmpty(e) == IF StateIsEmpty(e) THEN "true" ELSE "false"

\* v.remove(pk) directly followed by v.is_empty()
EntryRemove(pk) ==
    /\ entry' = StateRemove(entry, pk)
    /\ reference' = {r \in reference : PkOf(r) # pk}
    /\ is_empty_result' = EntryIsEmpty(entry')
    /\ last_call' = "remove"
    /\ UNCHANGED <<keyspace_rows, all_cached, values_result>>
    /\ UNCHANGED <<join_vars, mview_vars, wire_vars, init_vars, compat_vars, epoch_vars>>

\* values(): an entry that is not fully cached scans the keyspace first and
\* overlays its pending mutations
EntryValues ==
    /\ entry' = IF all_cached THEN entry
                ELSE [entry EXCEPT !.cached = Materialized(entry, keyspace_rows)]
    /\ all_cached' = TRUE
    /\ values_result' = [done |-> TRUE, rows |-> StateValues(entry')]
    /\ last_call' = "values"
    /\ UNCHANGED <<keyspace_rows, reference, is_empty_result>>
    /\ UNCHANGED <<join_vars, mview_vars, wire_vars, init_vars, compat_vars, epoch_vars>>

\* flush(write_batch) and the ingest of the batch
EntryFlush ==
    /\ keyspace_rows' = StateFlush(entry, keyspace_rows)
    /\ entry' = StateFlushed(entry)
    /\ last_call' = "flush"
    /\ UNCHANGED <<all_cached, reference, values_result, is_empty_result>>
    /\ UNCHANGED <<join_vars, mview_vars, wire_vars, init_vars, compat_vars, epoch_vars>>

NextEntry ==
    \/ \E row \in EntryRows : EntryInsert(row)
    \/ \E row \in EntryRows : EntryRemove(PkOf(row))
    \/ EntryValues
    \/ EntryFlush

\* ------------------------------------------------------------------- Epoch
\* curr and prev are unsigned integers of EpochBits bits (u64 in the program)
EpochModulus == 2 ^ EpochBits

EpochValues == 0..(EpochModulus - 1)

INVALID_EPOCH == 0

NoEpoch == [kind |-> "none", curr |-> 0, prev |-> 0]

EpochPanic == [kind |-> "panic", curr |-> 0, prev |-> 0]

EpochOf(curr, prev) == [kind |-> "epoch", curr |-> curr, prev |-> prev]

\* Epoch::new: assert!(curr > prev)
Epoch_new(curr, prev) == IF curr > prev THEN EpochOf(curr, prev) ELSE EpochPanic

\* Epoch::new_test_epoch: assert!(curr > 0); Self::new(curr, curr - 1)
new_test_epoch(curr) == IF curr > 0 THEN Epoch_new(curr, curr - 1) ELSE EpochPanic

\* Epoch::default
Epoch_default == EpochOf(1, INVALID_EPOCH)

\* how the build treats an addition that overflows: it panics (overflow
\* checks on) or wraps (overflow checks off)
Builds == {"checked", "wrapping"}

\* Epoch::inc: curr: self.curr + 1, prev: self.prev + 1
inc(e, build) ==
    IF build = "checked" /\ (e.curr + 1 >= EpochModulus \/ e.prev + 1 >= EpochModulus)
    THEN EpochPanic
    ELSE EpochOf((e.curr + 1) % EpochModulus, (e.prev + 1) % EpochModulus)

EpochIdle ==
    /\ epoch_value = NoEpoch
    /\ epoch_call = "none"

EpochNew ==
    /\ \E curr, prev \in EpochValues : epoch_value' = Epoch_new(curr, prev)
    /\ epoch_call' = "new"
    /\ UNCHANGED <<join_vars, mview_vars, wire_vars, init_vars, compat_vars, entry_vars>>

EpochNewTest ==
    /\ \E curr \in EpochValues : epoch_value' = new_test_epoch(curr)
    /\ epoch_call' = "new_test_epoch"
    /\ UNCHANGED <<join_vars, mview_vars, wire_vars, init_vars, compat_vars, entry_vars>>

EpochDefault ==
    /\ epoch_value' = Epoch_default
    /\ epoch_call' = "default"
    /\ UNCHANGED <<join_vars, mview_vars, wire_vars, init_vars, compat_vars, entry_vars>>

\* inc on an epoch one of the functions returned
EpochInc ==
    /\ epoch_value.kind = "epoch"
    /\ \E build \in Builds : epoch_value' = inc(epoch_value, build)
    /\ epoch_call' = "inc"
    /\ UNCHANGED <<join_vars, mview_vars, wire_vars, init_vars, compat_vars, entry_vars>>

NextEpoch == EpochNew \/ EpochNewTest \/ EpochDefault \/ EpochInc

\* no unit is looked at on its own
UnitsIdle == EntryIdle /\ EpochIdle

\* the subsystems the hash join specifications leave in their idle state
OthersIdle == MViewInit /\ WireIdle /\ StateIdle /\ CompatIdle /\ UnitsIdle

\* HashJoinExecutor::new: both hash tables empty, nothing read from the keyspace
NewHashTables == [s \in Sides |-> EmptyMap]

InitExecutor ==
    /\ jtype \in JoinTypes
    /\ ht = NewHashTables
    /\ store = [s \in Sides |-> {}]
    /\ chan = [s \in Sides |-> <<>>]
    /\ barrier = [s \in Sides |-> NoBarrier]
    /\ out = NoMessage
    /\ acc = EmptyMap
    /\ cur = [s \in Sides |-> {}]
    /\ invalid = 0
    /\ steps = 0
    /\ delivered = [s \in Sides |-> {}]
    /\ emitted = <<>>
    /\ restarted = FALSE
    /\ ht_orig = NewHashTables
    /\ out_orig = NoMessage
    /\ sent = [s \in Sides |-> 0]
    /\ recv = [s \in Sides |-> 0]
    /\ flush_result = "none"

\* the schema and the builders' data types as new leaves them
Constructed ==
    /\ schema = schema_fields(input_schema[Left], input_schema[Right])
    /\ new_column_datatypes = column_datatypes(schema)

\* every barrier is created without a mutation
NoPlan == plan = EmptyMap

\* the executor of the tests, constructed
Init ==
    /\ InitExecutor
    /\ input_schema = [s \in Sides |-> TestSchema]
    /\ Constructed
    /\ NoPlan
    /\ OthersIdle

\* the executor over inputs whose join key column is nullable
InitNull ==
    /\ InitExecutor
    /\ input_schema = [s \in Sides |-> NullableKeySchema]
    /\ Constructed
    /\ NoPlan
    /\ OthersIdle

\* two inputs of any schemas, the executor not yet constructed
InitSchema ==
    /\ InitExecutor
    /\ input_schema \in [Sides -> Schemas]
    /\ schema = <<>>
    /\ new_column_datatypes = <<>>
    /\ NoPlan
    /\ OthersIdle

\* the rows a chunk of the side's input can carry
InputRows(side) == SchemaRows(input_schema[side])

\* ---------------------------------------------------------- ghost bookkeeping
AccAdd(a, row, d) ==
    LET n == (IF row \in DOMAIN a THEN a[row] ELSE 0) + d
    IN IF n = 0 THEN [x \in DOMAIN a \ {row} |-> a[x]]
       ELSE MapPut(a, row, n)

\* Insert / UpdateInsert add one occurrence, Delete / UpdateDelete remove one
RECURSIVE ApplyOutput(_, _)
ApplyOutput(a, rows) ==
    IF rows = <<>> THEN a
    ELSE ApplyOutput(AccAdd(a, Head(rows)[2], IF Head(rows)[1] \in InsertOps THEN 1 ELSE -1),
                     Tail(rows))

RECURSIVE ApplyInput(_, _)
ApplyInput(S, chunk) ==
    IF chunk = <<>> THEN S
    ELSE ApplyInput(IF Head(chunk)[1] \in InsertOps
                    THEN {r \in S : PkOf(r) # PkOf(Head(chunk)[2])} \cup {Head(chunk)[2]}
                    ELSE {r \in S : PkOf(r) # PkOf(Head(chunk)[2])},
                    Tail(chunk))

RECURSIVE ValidInput(_, _)
ValidInput(S, chunk) ==
    IF chunk = <<>> THEN TRUE
    ELSE /\ IF Head(chunk)[1] \in InsertOps
            THEN \A r \in S : PkOf(r) # PkOf(Head(chunk)[2])
            ELSE Head(chunk)[2] \in S
         /\ ValidInput(ApplyInput(S, <<Head(chunk)>>), Tail(chunk))

Chunks(side, n) == UNION {[1..k -> Ops \X InputRows(side)] : k \in 0..n}

Min(a, b) == IF a < b THEN a ELSE b

\* ------------------------------------------------------------ the upstreams
BarriersIn(q) == {i \in 1..Len(q) : q[i].kind = "barrier"}

Pushed(side) == Cardinality(delivered[side]) + Cardinality(BarriersIn(chan[side]))

\* the errors a read of an input can yield
UpstreamErrors == {"io", "decode"}

\* the messages an upstream puts on its channel
ChunkSent(side) ==
    [kind |-> "chunk", epoch |-> 0, after |-> Pushed(side), tag |-> sent[side], err |-> "none",
     mutation |-> NoMutation]

\* the mutation the barrier of the epoch is created with, the same for the
\* copy sent to every input
MutationOf(epoch) == IF epoch \in DOMAIN plan THEN plan[epoch] ELSE NoMutation

BarrierSent(side, epoch) ==
    [kind |-> "barrier", epoch |-> epoch, after |-> Pushed(side), tag |-> 0, err |-> "none",
     mutation |-> MutationOf(epoch)]

ErrorSent(side, e) ==
    [kind |-> "error", epoch |-> 0, after |-> Pushed(side), tag |-> 0, err |-> e,
     mutation |-> NoMutation]

\* MockAsyncSource::push_chunks: the chunk's rows are drawn when it is read
PushChunk(side, window) ==
    /\ Len(chan[side]) < MaxQueue
    /\ chan' = [chan EXCEPT ![side] = Append(@, ChunkSent(side))]
    /\ sent' = [sent EXCEPT ![side] = (@ + 1) % window]
    /\ UNCHANGED <<jtype, ht, store, barrier, out, acc, cur, invalid, steps,
                   delivered, emitted, restarted, ht_orig, out_orig, recv, flush_result>>
    /\ UNCHANGED schema_vars
    /\ UNCHANGED other_vars

\* MockAsyncSource::push_barrier: epochs 1, 2, ... in order on each side
PushBarrier(side, max_epoch) ==
    /\ Len(chan[side]) < MaxQueue
    /\ Pushed(side) < max_epoch
    /\ chan' = [chan EXCEPT ![side] = Append(@, BarrierSent(side, Pushed(side) + 1))]
    /\ UNCHANGED <<jtype, ht, store, barrier, out, acc, cur, invalid, steps,
                   delivered, emitted, restarted, ht_orig, out_orig, sent, recv,
                   flush_result>>
    /\ UNCHANGED schema_vars
    /\ UNCHANGED other_vars

\* MockAsyncSource::push_barrier(tx, epoch, ..): an upstream that sends any epoch
PushBarrierAny(side, max_epoch) ==
    /\ Len(chan[side]) < MaxQueue
    /\ Pushed(side) < max_epoch
    /\ \E epoch \in 1..max_epoch :
        chan' = [chan EXCEPT ![side] = Append(@, BarrierSent(side, epoch))]
    /\ UNCHANGED <<jtype, ht, store, barrier, out, acc, cur, invalid, steps,
                   delivered, emitted, restarted, ht_orig, out_orig, sent, recv,
                   flush_result>>
    /\ UNCHANGED schema_vars
    /\ UNCHANGED other_vars

\* an upstream whose next read yields Err(e)
PushError(side) ==
    /\ Len(chan[side]) < MaxQueue
    /\ \E e \in UpstreamErrors :
        chan' = [chan EXCEPT ![side] = Append(@, ErrorSent(side, e))]
    /\ UNCHANGED <<jtype, ht, store, barrier, out, acc, cur, invalid, steps,
                   delivered, emitted, restarted, ht_orig, out_orig, sent, recv,
                   flush_result>>
    /\ UNCHANGED schema_vars
    /\ UNCHANGED other_vars

\* ------------------------------------------------------------ BarrierAligner
\* What a read of the side's input yields: the oldest message waiting in the
\* channel, or, when none waits, whatever the upstream sends next.
Incoming(side, max_epoch) ==
    IF chan[side] # <<>> THEN {Head(chan[side])}
    ELSE {ChunkSent(side)}
         \cup (IF Pushed(side) < max_epoch
               THEN {BarrierSent(side, Pushed(side) + 1)}
               ELSE {})

Rest_Keep(side) == chan[side]

Rest(side) == IF chan[side] # <<>> THEN Tail(chan[side]) ELSE <<>>

\* a message waits in the side's channel
Queued(side) == chan[side] # <<>>

CanRead_Parked(side) == TRUE

\* the aligner reads a side only while it holds no barrier of that side
CanRead(side) == barrier[side] = NoBarrier

PeerBarrier_NoWait(side, m) == TRUE

PeerBarrier_AnyEpoch(side, m) == barrier[Other(side)] # NoBarrier

PeerBarrier_Never(side, m) == FALSE

\* the other side's barrier of the same epoch is held: the two collapse
PeerBarrier(side, m) ==
    /\ barrier[Other(side)] # NoBarrier
    /\ barrier[Other(side)] = m.epoch

\* the other side's barrier is held and its epoch differs
Mismatch(side, m) ==
    /\ barrier[Other(side)] # NoBarrier
    /\ barrier[Other(side)] # m.epoch

Regression_Never(side, m) == FALSE

\* the side has delivered a barrier whose epoch is not smaller
Regression(side, m) == \E e \in delivered[side] : m.epoch <= e

\* ------------------------------------------------------ HashJoinExecutor::next
Running == out.kind # "error"

\* AlignedMessage::Left(Ok(chunk)) / AlignedMessage::Right(Ok(chunk)), the
\* chunk being one of chunks
NextChunkOf(side, chunks, window) ==
    /\ Running
    /\ CanRead(side)
    /\ \E m \in Incoming(side, 0), chunk \in chunks :
        LET res == JoinChunk(jtype, side, ht[side], ht[Other(side)], store[side], chunk)
            orig == IF restarted
                    THEN JoinChunk(jtype, side, ht_orig[side], ht_orig[Other(side)], {}, chunk)
                    ELSE res
        IN /\ ht' = [ht EXCEPT ![side] = res.ht]
           /\ m.kind = "chunk"
           /\ out' = ChunkMessage(side, chunk, res.segs, m.after, m.tag)
           /\ acc' = ApplyOutput(acc, Flatten(res.segs))
           /\ cur' = [cur EXCEPT ![side] = ApplyInput(@, chunk)]
           /\ ValidInput(cur[side], chunk) \/ invalid < MaxInvalid
           /\ invalid' = IF ValidInput(cur[side], chunk) THEN invalid ELSE invalid + 1
           /\ steps' = steps + Len(chunk)
           /\ ht_orig' = [ht_orig EXCEPT ![side] = orig.ht]
           /\ out_orig' = ChunkMessage(side, chunk, orig.segs, m.after, m.tag)
    /\ sent' = IF Queued(side) THEN sent ELSE [sent EXCEPT ![side] = (@ + 1) % window]
    /\ recv' = [recv EXCEPT ![side] = (@ + 1) % window]
    /\ chan' = [chan EXCEPT ![side] = Rest(side)]
    /\ UNCHANGED <<jtype, store, barrier, delivered, emitted, restarted, flush_result>>
    /\ UNCHANGED schema_vars
    /\ UNCHANGED other_vars

\* the same for any chunk of at most MaxChunkLen rows, max_steps rows in all
NextChunk(side, max_steps, window) ==
    NextChunkOf(side, Chunks(side, Min(MaxChunkLen, max_steps - steps)), window)

UpstreamResult_EmptyChunk(side, m) == ChunkMessage(side, <<>>, <<>>, m.after, m.tag)

\* Err(e) => Err(e)
UpstreamResult(side, m) == ErrorMessage(m.err, 0)

\* AlignedMessage::Left(Err(e)) / AlignedMessage::Right(Err(e))
NextError(side) ==
    /\ Running
    /\ CanRead(side)
    /\ \E m \in Incoming(side, 0) :
        /\ m.kind = "error"
        /\ out' = UpstreamResult(side, m)
    /\ out_orig' = out'
    /\ chan' = [chan EXCEPT ![side] = Rest(side)]
    /\ UNCHANGED <<jtype, ht, store, barrier, acc, cur, invalid, steps, delivered,
                   emitted, restarted, ht_orig, sent, recv, flush_result>>
    /\ UNCHANGED schema_vars
    /\ UNCHANGED other_vars

\* the first barrier of an epoch: the aligner keeps it and stops reading the side
ParkBarrier(side, max_epoch) ==
    /\ Running
    /\ CanRead(side)
    /\ barrier[Other(side)] = NoBarrier
    /\ \E m \in Incoming(side, max_epoch) :
        /\ m.kind = "barrier"
        /\ ~Regression(side, m)
        /\ barrier' = [barrier EXCEPT ![side] = m.epoch]
        /\ delivered' = [delivered EXCEPT ![side] = @ \cup {m.epoch}]
    /\ chan' = [chan EXCEPT ![side] = Rest(side)]
    /\ UNCHANGED <<jtype, ht, store, out, acc, cur, invalid, steps, emitted,
                   restarted, ht_orig, out_orig, sent, recv, flush_result>>
    /\ UNCHANGED schema_vars
    /\ UNCHANGED other_vars

\* a barrier that breaks the protocol (its epoch regresses on its side or
\* differs from the epoch the other side is parked at): the aligner fails
RejectBarrier(side) ==
    /\ Running
    /\ CanRead(side)
    /\ \E m \in Incoming(side, 0) :
        /\ m.kind = "barrier"
        /\ Regression(side, m) \/ Mismatch(side, m)
        /\ out' = ErrorMessage("protocol", m.epoch)
    /\ out_orig' = out'
    /\ chan' = [chan EXCEPT ![side] = Rest(side)]
    /\ UNCHANGED <<jtype, ht, store, barrier, acc, cur, invalid, steps, delivered,
                   emitted, restarted, ht_orig, sent, recv, flush_result>>
    /\ UNCHANGED schema_vars
    /\ UNCHANGED other_vars

\* flush of one side: every entry's pending mutations go into one write batch
RECURSIVE FlushEntries(_, _, _)
FlushEntries(keys, ht_side, st) ==
    IF keys = {} THEN st
    ELSE LET k == CHOOSE x \in keys : TRUE
         IN FlushEntries(keys \ {k}, ht_side, StateFlush(ht_side[k], st))

FlushedEntries(ht_side) == [k \in DOMAIN ht_side |-> StateFlushed(ht_side[k])]

FlushOutcomes == {"ok", "fail_left", "fail_right"}

flush_data_LeftOnly(outcome) ==
    /\ store' = [s \in Sides |->
                    IF outcome = "fail_left" \/ s = Right
                    THEN store[s]
                    ELSE FlushEntries(DOMAIN ht[s], ht[s], store[s])]
    /\ ht' = [s \in Sides |->
                    IF outcome = "fail_left" \/ s = Right
                    THEN ht[s]
                    ELSE FlushedEntries(ht[s])]
    /\ flush_result' = outcome

\* flush_data: the left side's batch is built and ingested, then the right's
flush_data(outcome) ==
    /\ store' = [s \in Sides |->
                    IF outcome = "fail_left" \/ (outcome = "fail_right" /\ s = Right)
                    THEN store[s]
                    ELSE FlushEntries(DOMAIN ht[s], ht[s], store[s])]
    /\ ht' = [s \in Sides |->
                    IF outcome = "fail_left" \/ (outcome = "fail_right" /\ s = Right)
                    THEN ht[s]
                    ELSE FlushedEntries(ht[s])]
    /\ flush_result' = outcome

BarrierResult_Swallow(outcome, epoch) == BarrierMessage(epoch)

\* self.flush_data().await?; Ok(Message::Barrier(barrier))
BarrierResult(outcome, epoch) ==
    IF outcome = "ok" THEN BarrierMessage(epoch) ELSE ErrorMessage(outcome, epoch)

Forwarded_NoMutation(result, m) == result

\* Ok(Message::Barrier(barrier)): the barrier is the one the aligner handed over
Forwarded(result, m) ==
    IF result.kind = "barrier" THEN [result EXCEPT !.mutation = m.mutation] ELSE result

\* the second barrier of an epoch: AlignedMessage::Barrier, flush, forward
AlignBarrier(side, max_epoch, outcome) ==
    /\ Running
    /\ CanRead(side)
    /\ \E m \in Incoming(side, max_epoch) :
        /\ m.kind = "barrier"
        /\ PeerBarrier(side, m)
        /\ ~Regression(side, m)
        /\ delivered' = [delivered EXCEPT ![side] = @ \cup {m.epoch}]
        /\ out' = Forwarded(BarrierResult(outcome, m.epoch), m)
        /\ emitted' = IF out'.kind = "barrier" THEN Append(emitted, m.epoch) ELSE emitted
    /\ barrier' = [s \in Sides |-> NoBarrier]
    /\ chan' = [chan EXCEPT ![side] = Rest(side)]
    /\ flush_data(outcome)
    /\ ht_orig' = [s \in Sides |-> FlushedEntries(ht_orig[s])]
    /\ out_orig' = out'
    /\ UNCHANGED <<jtype, acc, cur, invalid, steps, restarted, sent, recv>>
    /\ UNCHANGED schema_vars
    /\ UNCHANGED other_vars

\* The executor fed directly by its upstreams (no message waits in a channel).
Next ==
    \/ \E side \in Sides : NextChunk(side, MaxSteps, 1)
    \/ \E side \in Sides : ParkBarrier(side, MaxEpoch)
    \/ \E side \in Sides, outcome \in FlushOutcomes : AlignBarrier(side, MaxEpoch, outcome)

Spec == Init /\ [][Next]_vars

\* The executor fed chunks only: the row algorithm over longer inputs.
NextJoin == \E side \in Sides : NextChunk(side, MaxJoinSteps, 1)

SpecJoin == Init /\ [][NextJoin]_vars

\* The executor behind two channels the upstreams fill ahead of its reads.
NextPipe ==
    \/ \E side \in Sides : PushChunk(side, 1)
    \/ \E side \in Sides : PushBarrier(side, MaxPipeEpoch)
    \/ \E side \in Sides : NextChunk(side, MaxPipeSteps, 1)
    \/ \E side \in Sides : ParkBarrier(side, MaxPipeEpoch)
    \/ \E side \in Sides, outcome \in FlushOutcomes : AlignBarrier(side, MaxPipeEpoch, outcome)

SpecPipe == Init /\ [][NextPipe]_vars

\* one call of next that reads the side: a chunk, the first barrier of an
\* epoch or the second
ReadSide(side) ==
    \/ NextChunk(side, MaxPipeSteps, 1)
    \/ ParkBarrier(side, MaxPipeEpoch)
    \/ \E outcome \in FlushOutcomes : AlignBarrier(side, MaxPipeEpoch, outcome)

\* The same under fair scheduling: a side the aligner may read is read in
\* the end.
SpecLive == Init /\ [][NextPipe]_vars /\ \A side \in Sides : WF_vars(ReadSide(side))

\* The same with the chunks of each side numbered as they are sent: the
\* numbers wrap at Window, which exceeds the chunks a channel can hold.
Window == MaxQueue + 1

NextOrder ==
    \/ \E side \in Sides : PushChunk(side, Window)
    \/ \E side \in Sides : PushBarrier(side, MaxOrderEpoch)
    \/ \E side \in Sides : NextChunk(side, MaxOrderSteps, Window)
    \/ \E side \in Sides : ParkBarrier(side, MaxOrderEpoch)
    \/ \E side \in Sides, outcome \in FlushOutcomes : AlignBarrier(side, MaxOrderEpoch, outcome)

SpecOrder == Init /\ [][NextOrder]_vars

\* Upstreams that may break the protocol or fail: barriers of any epoch and
\* read errors wait in the channels, chunks are read as they are sent.
NextProto ==
    \/ \E side \in Sides : PushBarrierAny(side, MaxProtoEpoch)
    \/ \E side \in Sides : PushError(side)
    \/ \E side \in Sides : NextChunk(side, MaxProtoSteps, 1)
    \/ \E side \in Sides : Queued(side) /\ NextError(side)
    \/ \E side \in Sides : Queued(side) /\ ParkBarrier(side, 0)
    \/ \E side \in Sides : Queued(side) /\ RejectBarrier(side)
    \/ \E side \in Sides : Queued(side) /\ AlignBarrier(side, 0, "ok")

SpecProto == Init /\ [][NextProto]_vars

\* The executor over inputs with a nullable join key column, fed chunks only.
NextNull == \E side \in Sides : NextChunk(side, MaxNullSteps, 1)

SpecNull == InitNull /\ [][NextNull]_vars

\* ------------------------------------------------------------- construction
\* HashJoinExecutor::new builds the output schema and the builders' data types
New ==
    /\ schema = <<>>
    /\ schema' = schema_fields(input_schema[Left], input_schema[Right])
    /\ new_column_datatypes' = column_datatypes(schema')
    /\ UNCHANGED <<jtype, ht, store, chan, barrier, out, acc, cur, invalid, steps,
                   delivered, emitted, restarted, ht_orig, out_orig, input_schema,
                   sent, recv, flush_result>>
    /\ UNCHANGED other_vars

SpecSchema == InitSchema /\ [][New]_vars

\* ------------------------------------------------------------------ restart
\* The executor is stopped right after an aligned barrier whose flush
\* succeeded and HashJoinExecutor::new builds a fresh one over the keyspace.
Restart ==
    /\ out.kind = "barrier"
    /\ ~restarted
    /\ restarted' = TRUE
    /\ ht' = NewHashTables
    /\ UNCHANGED <<jtype, store, chan, barrier, out, acc, cur, invalid, steps,
                   delivered, emitted, ht_orig, out_orig, sent, recv, flush_result>>
    /\ UNCHANGED schema_vars
    /\ UNCHANGED other_vars

NextRestart == Next \/ Restart

SpecRestart == Init /\ [][NextRestart]_vars

\* ---------------------------------------------------------------- updates
\* every UpdateDelete of the chunk is directly followed by an UpdateInsert
\* and every UpdateInsert directly preceded by an UpdateDelete
UpdatesPaired(ops) ==
    \A i \in 1..Len(ops) :
        /\ ops[i] = "UpdateDelete" => (i < Len(ops) /\ ops[i + 1] = "UpdateInsert")
        /\ ops[i] = "UpdateInsert" => (i > 1 /\ ops[i - 1] = "UpdateDelete")

OpsOf(chunk) == [i \in 1..Len(chunk) |-> chunk[i][1]]

\* the chunks of at most n rows whose updates are paired
UpdateChunks(side, n) == {c \in Chunks(side, n) : UpdatesPaired(OpsOf(c))}

\* The executor fed chunks that carry an UpdateDelete / UpdateInsert pair, an
\* Insert or a Delete.
NextUpdate ==
    \E side \in Sides :
        NextChunkOf(side, UpdateChunks(side, Min(MaxUpdateLen, MaxUpdateSteps - steps)), 1)

SpecUpdate == Init /\ [][NextUpdate]_vars

\* ------------------------------------------------- barriers with mutations
\* the mutations push_barrier(tx, epoch, stop) creates a barrier with
PlanMutations == {NoMutation, Stop({})}

\* the executor of the tests; each epoch's barrier is created with or without
\* a stop mutation
InitMutation ==
    /\ InitExecutor
    /\ input_schema = [s \in Sides |-> TestSchema]
    /\ Constructed
    /\ plan \in [1..MaxMutationEpoch -> PlanMutations]
    /\ OthersIdle

NextMutation ==
    \/ \E side \in Sides : PushChunk(side, 1)
    \/ \E side \in Sides : PushBarrier(side, MaxMutationEpoch)
    \/ \E side \in Sides : NextChunk(side, MaxMutationSteps, 1)
    \/ \E side \in Sides : ParkBarrier(side, MaxMutationEpoch)
    \/ \E side \in Sides, outcome \in FlushOutcomes :
            AlignBarrier(side, MaxMutationEpoch, outcome)

SpecMutation == InitMutation /\ [][NextMutation]_vars

\* ------------------------------------------------------ the other components
\* the hash join executor of the tests, constructed and left alone
JoinIdle == InitExecutor /\ jtype = Inner /\ input_schema = [s \in Sides |-> TestSchema]
                /\ Constructed /\ NoPlan

InitMView == JoinIdle /\ MViewInit /\ WireIdle /\ StateIdle /\ CompatIdle /\ UnitsIdle

SpecMView == InitMView /\ [][NextMView]_vars

InitWire == JoinIdle /\ MViewInit /\ WireInit /\ StateIdle /\ CompatIdle /\ UnitsIdle

SpecWire == InitWire /\ [][NextWire]_vars

InitState == JoinIdle /\ MViewInit /\ WireIdle /\ StateIdle /\ CompatIdle /\ UnitsIdle

SpecInit == InitState /\ [][NextInit]_vars

InitCompat == JoinIdle /\ MViewInit /\ WireIdle /\ StateIdle /\ CompatInit /\ UnitsIdle

SpecCompat == InitCompat /\ [][ExecuteInner]_vars

InitEntry == JoinIdle /\ MViewInit /\ WireIdle /\ StateIdle /\ CompatIdle /\ EntryInit
                /\ EpochIdle

SpecEntry == InitEntry /\ [][NextEntry]_vars

SpecEpoch == InitState /\ [][NextEpoch]_vars

TypeOK ==
    /\ jtype \in JoinTypes
    /\ steps \in Nat
    /\ \A s \in Sides : Len(chan[s]) <= MaxQueue

\* ----------------------------------------------------------------- claims
StoredRows(side) == UNION {ht[side][k].cached : k \in DOMAIN ht[side]}

Range(f) == {f[x] : x \in DOMAIN f}

\* the output row for a left row l and a right row r (either may be NULL-padded)
Joined(l, r) == l \o r

Padding == NullRow(SideColumnN)

\* the output row pairing row r of side with row m of the opposite side
Pair(side, r, m) == IF side = Left THEN Joined(r, m) ELSE Joined(m, r)

\* a join key with a NULL component equals no key
HasNull(key) == \E i \in 1..Len(key) : key[i] = Null

Matches(r, S) ==
    {m \in S : /\ hash_key_from_row_ref(m) = hash_key_from_row_ref(r)
               /\ ~HasNull(hash_key_from_row_ref(r))}

Count(a, row) == IF row \in DOMAIN a THEN a[row] ELSE 0

EquiJoin(L, R) == UNION {{Joined(l, r) : r \in Matches(l, R)} : l \in L}

\* C1: for an Inner join fed valid inputs, the multiset of the accumulated
\* output (inserts add one occurrence, deletes remove one) is the equi-join on
\* the key column of the current left rows and the current right rows, in
\* every state and so at every aligned barrier.  A NULL join key equals no key.
C1_InnerJoinIsEquiJoin ==
    (jtype = Inner /\ invalid = 0) =>
        acc = [x \in EquiJoin(cur[Left], cur[Right]) |-> 1]

\* C2: for the outer joins fed valid inputs, every row r currently held on an
\* outer-keep side has exactly one NULL-padded output row when the opposite
\* side holds no row with r's key, and otherwise no NULL-padded row and
\* exactly one output row per matching row.
C2_OuterRowsAccounted ==
    (jtype # Inner /\ invalid = 0) =>
        \A side \in Sides : outer_side_keep(jtype, side) =>
            \A r \in cur[side] :
                LET ms == Matches(r, cur[Other(side)])
                IN IF ms = {}
                   THEN Count(acc, Pair(side, r, Padding)) = 1
                   ELSE /\ Count(acc, Pair(side, r, Padding)) = 0
                        /\ \A m \in ms : Count(acc, Pair(side, r, m)) = 1

\* C5: when next has returned an aligned barrier, no entry of either side has
\* a pending mutation left, and (for valid inputs) each side's store holds
\* exactly the rows of the side's entries.
C5_FlushedBeforeBarrier ==
    out.kind = "barrier" =>
        \A side \in Sides :
            /\ \A k \in DOMAIN ht[side] : ht[side][k].puts = {} /\ ht[side][k].dels = {}
            /\ invalid = 0 => store[side] = StoredRows(side)

C5_Witness ==
    /\ out.kind = "barrier"
    /\ store[Left] # {}
    /\ store[Right] # {}

\* C3: a chunk is processed in the epoch it was sent in: the chunk next
\* returned output for followed exactly as many barriers on its own side as
\* aligned barriers have been returned, so no chunk that follows a barrier is
\* processed before that barrier is emitted, and every output before an
\* aligned barrier comes from chunks that preceded it.
C3_NoOutputStraddlesBarrier ==
    out.kind = "chunk" => out.after = Len(emitted)

\* a chunk waits behind the barrier of the parked side while a chunk of the
\* other side has been processed
C3_Witness ==
    \E s \in Sides :
        /\ barrier[s] # NoBarrier
        /\ chan[s] # <<>>
        /\ Head(chan[s]).kind = "chunk"
        /\ out.kind = "chunk"
        /\ out.side = Other(s)
        /\ Len(out.input) > 0

\* C4: an aligned barrier of epoch e is returned only when both sides have
\* delivered their barrier of epoch e, at most once per epoch, and it is
\* returned as soon as both have (unless the flush failed and next returned
\* the error instead).
C4_OneAlignedBarrierPerPair ==
    /\ \A i \in 1..Len(emitted) : emitted[i] \in delivered[Left] \cap delivered[Right]
    /\ \A i, j \in 1..Len(emitted) : i # j => emitted[i] # emitted[j]
    /\ \A e \in delivered[Left] \cap delivered[Right] :
            e \in Range(emitted) \/ (out.kind = "error" /\ out.epoch = e)

C4_Witness ==
    /\ Len(emitted) = 2
    /\ out.kind = "barrier"

\* A step that processed a non-empty chunk: out' holds the chunk (input), its
\* side and, per input row, the rows appended (segs).
ChunkStep == steps' > steps

\* the update side's hash table after the first n rows of the chunk
TableAfter(n) ==
    JoinChunk(jtype, out'.side, ht[out'.side], ht[Other(out'.side)],
              store[out'.side], SubSeq(out'.input, 1, n)).ht

\* the rows the match side holds under the key of r, in the order of values()
MatchedRows(U, r) ==
    IF hash_key_from_row_ref(r) \in DOMAIN ht[Other(U)]
    THEN SortedByPk(ht[Other(U)][hash_key_from_row_ref(r)].cached)
    ELSE <<>>

HasPk(tbl, r) ==
    /\ hash_key_from_row_ref(r) \in DOMAIN tbl
    /\ \E x \in tbl[hash_key_from_row_ref(r)].cached : PkOf(x) = PkOf(r)

RowsUnder(tbl, r) ==
    IF hash_key_from_row_ref(r) \in DOMAIN tbl
    THEN tbl[hash_key_from_row_ref(r)].cached
    ELSE {}

C6_Row(U, pre, post, op, r, seg) ==
    (/\ op \in InsertOps
     /\ outer_side_null(jtype, U)
     /\ hash_key_from_row_ref(r) \notin DOMAIN pre
     /\ MatchedRows(U, r) # <<>>)
    => /\ seg = Flatten([j \in 1..Len(MatchedRows(U, r)) |->
                    <<<<"UpdateDelete", Pair(U, Padding, MatchedRows(U, r)[j])>>,
                      <<"UpdateInsert", Pair(U, r, MatchedRows(U, r)[j])>>>>])
       /\ RowsUnder(post, r) = {r}

\* C6: an Insert or UpdateInsert of r on an outer-null side U that has no
\* entry for r's key, while the match side holds rows under it, emits per
\* matched row m an UpdateDelete of (NULL | m) followed by an UpdateInsert of
\* (r | m) and nothing else, and r is stored in U's new entry.
C6_FirstInsertRetractsNullRows ==
    [][ChunkStep =>
        \A i \in 1..Len(out'.input) :
            C6_Row(out'.side, TableAfter(i - 1), TableAfter(i),
                   out'.input[i][1], out'.input[i][2], out'.segs[i])]_vars

\* two NULL-padded rows were retracted by one insert
C6_Witness ==
    /\ out.kind = "chunk"
    /\ outer_side_null(jtype, out.side)
    /\ Len(out.input) = 1
    /\ out.input[1][1] \in InsertOps
    /\ Len(out.segs[1]) = 4
    /\ out.segs[1][1][1] = "UpdateDelete"
    /\ out.input[1][2] \in StoredRows(out.side)

C7_Row(U, pre, op, r, seg) ==
    /\ (/\ op \in DeleteOps
        /\ RowsUnder(pre, r) = {r}
        /\ outer_side_null(jtype, U)
        /\ MatchedRows(U, r) # <<>>)
       => seg = Flatten([j \in 1..Len(MatchedRows(U, r)) |->
                    <<<<"UpdateDelete", Pair(U, r, MatchedRows(U, r)[j])>>,
                      <<"UpdateInsert", Pair(U, Padding, MatchedRows(U, r)[j])>>>>])
    /\ (/\ op \in DeleteOps
        /\ r \in RowsUnder(pre, r)
        /\ RowsUnder(pre, r) # {r}
        /\ MatchedRows(U, r) # <<>>)
       => seg = [j \in 1..Len(MatchedRows(U, r)) |->
                    <<op, Pair(U, r, MatchedRows(U, r)[j])>>]

\* C7: a Delete or UpdateDelete of r that removes the last row of U's entry on
\* an outer-null side, while the match side holds rows under the key, emits
\* per matched row m an UpdateDelete of (r | m) followed by an UpdateInsert of
\* (NULL | m) and no plain echo; when other rows remain in U's entry it emits
\* only the echo (op, r | m) per m.
C7_LastDeleteRestoresNullRows ==
    [][ChunkStep =>
        \A i \in 1..Len(out'.input) :
            C7_Row(out'.side, TableAfter(i - 1),
                   out'.input[i][1], out'.input[i][2], out'.segs[i])]_vars

\* a valid Delete emptied the entry and the matched row became NULL-padded
C7_Witness ==
    /\ out.kind = "chunk"
    /\ invalid = 0
    /\ outer_side_null(jtype, out.side)
    /\ Len(out.input) = 1
    /\ out.input[1][1] = "Delete"
    /\ Len(out.segs[1]) = 2
    /\ out.segs[1][1][1] = "UpdateDelete"
    /\ out.segs[1][2][1] = "UpdateInsert"

C8_Row(U, pre, post, op, r, seg) ==
    hash_key_from_row_ref(r) \notin DOMAIN ht[Other(U)]
    => /\ seg = IF outer_side_keep(jtype, U)
                THEN <<<<op, Pair(U, r, Padding)>>>>
                ELSE <<>>
       /\ op \in InsertOps =>
            /\ DOMAIN post = DOMAIN pre \cup {hash_key_from_row_ref(r)}
            /\ RowsUnder(post, r) =
                  {x \in RowsUnder(pre, r) : PkOf(x) # PkOf(r)} \cup {r}
       /\ op \in DeleteOps =>
            /\ DOMAIN post = DOMAIN pre
            /\ RowsUnder(post, r) = {x \in RowsUnder(pre, r) : PkOf(x) # PkOf(r)}

\* C8: when the match side has no entry for the key of the incoming row r,
\* the op is applied to the update side's state (an insert op creates the
\* entry) and the output is the single row (op, r | NULL) on an outer-keep
\* side and nothing otherwise.
C8_NoMatchPadsOrSkips ==
    [][ChunkStep =>
        \A i \in 1..Len(out'.input) :
            C8_Row(out'.side, TableAfter(i - 1), TableAfter(i),
                   out'.input[i][1], out'.input[i][2], out'.segs[i])]_vars

\* RightOuter: an unmatched right row yields (NULL | r) while the left side
\* holds rows of another key, which produced no output
C8_Witness ==
    /\ jtype = RightOuter
    /\ out.kind = "chunk"
    /\ out.side = Right
    /\ Len(out.input) = 1
    /\ out.segs = <<<<<<"Insert", Joined(Padding, out.input[1][2])>>>>>>
    /\ DOMAIN ht[Left] # {}
    /\ hash_key_from_row_ref(out.input[1][2]) \notin DOMAIN ht[Left]
    /\ acc = [x \in {Joined(Padding, out.input[1][2])} |-> 1]

C9_Row(U, pre, post, op, r, seg) ==
    (op \in DeleteOps /\ ~HasPk(pre, r))
    => /\ seg = <<>>
       /\ DOMAIN post = DOMAIN pre
       /\ \A k \in DOMAIN pre : post[k].cached = pre[k].cached

\* C9: a Delete or UpdateDelete whose (join key, pk) is not in the update
\* side's state changes the rows of neither side and adds no output row.
C9_AbsentDeleteIsNoOp ==
    [][ChunkStep =>
        /\ ht'[Other(out'.side)] = ht[Other(out'.side)]
        /\ \A i \in 1..Len(out'.input) :
            C9_Row(out'.side, TableAfter(i - 1), TableAfter(i),
                   out'.input[i][1], out'.input[i][2], out'.segs[i])]_vars

\* C10: after a restart right after a flushed aligned barrier, the fresh
\* executor returns the messages the original executor would have returned.
C10_RestartSameOutputs ==
    restarted => out = out_orig

\* C11: the output schema is the left input's fields followed by the right
\* input's fields, and the data types of the output column builders follow
\* the same order.
C11_SchemaIsLeftThenRight ==
    schema # <<>> =>
        /\ Len(schema) = Len(input_schema[Left]) + Len(input_schema[Right])
        /\ Len(new_column_datatypes) = Len(schema)
        /\ \A i \in 1..Len(schema) :
            LET field == IF i <= Len(input_schema[Left])
                         THEN input_schema[Left][i]
                         ELSE input_schema[Right][i - Len(input_schema[Left])]
            IN /\ schema[i] = field
               /\ new_column_datatypes[i] = field.data_type

\* the columns of the side within an output row
Part(side, vals) ==
    IF side = Left THEN SubSeq(vals, 1, SideColumnN)
    ELSE SubSeq(vals, SideColumnN + 1, SideColumnN + SideColumnN)

\* C12: in every output row the left input's columns are the first |left|
\* positions and the right input's columns the following |right| positions,
\* whichever side drove the chunk: the columns of the driving side carry the
\* input row or are all NULL, the columns of the other side carry a row that
\* side stores or are all NULL, and never both are NULL.
C12_LeftColumnsThenRightColumns ==
    out.kind = "chunk" =>
        \A i \in 1..Len(out.segs) : \A j \in 1..Len(out.segs[i]) :
            LET vals == out.segs[i][j][2]
                upd == Part(out.side, vals)
                mat == Part(Other(out.side), vals)
            IN /\ Len(vals) = Len(input_schema[Left]) + Len(input_schema[Right])
               /\ upd \in {out.input[i][2], Padding}
               /\ mat \in StoredRows(Other(out.side)) \cup {Padding}
               /\ ~(upd = Padding /\ mat = Padding)

\* a right chunk retracted a NULL-padded left row: (l | NULL) became (l | r)
\* with l # r
C12_Witness ==
    /\ out.kind = "chunk"
    /\ out.side = Right
    /\ Len(out.input) = 1
    /\ Len(out.segs[1]) = 2
    /\ Part(Right, out.segs[1][1][2]) = Padding
    /\ Part(Right, out.segs[1][2][2]) = out.input[1][2]
    /\ Part(Left, out.segs[1][2][2]) # out.input[1][2]

\* a step in which the second barrier of an epoch was read
AlignStep == \E s \in Sides : barrier[s] # NoBarrier /\ barrier'[s] = NoBarrier

\* the side's store with every pending mutation of its entries written
FullyFlushed(side) == FlushEntries(DOMAIN ht[side], ht[side], store[side])

\* C13: at an aligned barrier either the pending mutations of both sides
\* become visible in the store or those of neither side do.
C13_BothSidesOrNeither ==
    [][AlignStep =>
        \/ \A s \in Sides : store'[s] = FullyFlushed(s)
        \/ \A s \in Sides : store'[s] = store[s]]_vars

\* C14: when a flush or an ingest fails at an aligned barrier, next returns
\* that error and the aligned barrier is not returned; a barrier is returned
\* only after a flush that succeeded.
C14_FlushFailureReturnsError ==
    /\ flush_result \in {"fail_left", "fail_right"} =>
        /\ out.kind = "error"
        /\ out.err = flush_result
        /\ out.epoch \notin Range(emitted)
    /\ out.kind = "barrier" => flush_result = "ok"

\* the ingest of the right side's batch failed after rows were processed
C14_Witness ==
    /\ flush_result = "fail_right"
    /\ out.kind = "error"
    /\ steps >= 2

\* the executor read the message at the head of the side's channel
ReadsHead(s) == Queued(s) /\ Len(chan'[s]) < Len(chan[s])

\* C15: when a read of a side yields an error, next returns that error, no
\* output chunk, and the join state of both sides is unchanged.
C15_UpstreamErrorForwarded ==
    [][\A s \in Sides :
        (ReadsHead(s) /\ Head(chan[s]).kind = "error") =>
            /\ out'.kind = "error"
            /\ out'.err = Head(chan[s]).err
            /\ out'.segs = <<>>
            /\ ht' = ht
            /\ store' = store
            /\ acc' = acc]_vars

\* an upstream error was returned while rows are stored
C15_Witness ==
    /\ out.kind = "error"
    /\ out.err = "decode"
    /\ \E s \in Sides : StoredRows(s) # {}

\* the chunks waiting in the side's channel
ChunksIn(s) == SelectSeq(chan[s], LAMBDA m : m.kind = "chunk")

\* the waiting chunks carry the numbers that follow the last processed one,
\* up to the last sent
InOrder(s) ==
    /\ \A i \in 1..Len(ChunksIn(s)) : ChunksIn(s)[i].tag = (recv[s] + i - 1) % Window
    /\ sent[s] = (recv[s] + Len(ChunksIn(s))) % Window

\* C16: the chunks of a side are processed in the order they were sent,
\* none dropped, duplicated or reordered: the chunk processed carries the
\* number that follows the previously processed chunk of its side, and the
\* chunks still waiting carry the numbers after it.
C16_PerInputOrderPreserved ==
    [][/\ \A s \in Sides : recv'[s] # recv[s] =>
            /\ out'.kind = "chunk"
            /\ out'.side = s
            /\ out'.tag = recv[s]
            /\ recv'[s] = (recv[s] + 1) % Window
       /\ \A s \in Sides : InOrder(s)']_vars

\* the numbering wrapped on a side that has delivered its barrier and has
\* chunks waiting
C16_Witness ==
    \E s \in Sides :
        /\ out.kind = "chunk"
        /\ out.side = s
        /\ out.tag = Window - 1
        /\ delivered[s] # {}
        /\ Len(ChunksIn(s)) = MaxQueue

\* C17: while a side is parked, nothing is read from it: none of its
\* chunks is processed, none of its barriers is taken and its channel only
\* grows.
C17_ParkedSideNotRead ==
    [][\A s \in Sides : barrier[s] # NoBarrier =>
            /\ recv'[s] = recv[s]
            /\ delivered'[s] = delivered[s]
            /\ Len(chan'[s]) >= Len(chan[s])
            /\ SubSeq(chan'[s], 1, Len(chan[s])) = chan[s]]_vars

\* the parked side's channel is full while the other side's second chunk
\* was processed
C17_Witness ==
    \E s \in Sides :
        /\ barrier[s] # NoBarrier
        /\ Len(ChunksIn(s)) = MaxQueue
        /\ out.kind = "chunk"
        /\ out.side = Other(s)
        /\ out.tag = 1

\* C18: a barrier read while the other side is parked at a different epoch
\* makes the aligner fail; an aligned barrier is returned only for two
\* barriers of the same epoch.
C18_MismatchedEpochsFail ==
    [][/\ \A s \in Sides :
            (/\ ReadsHead(s)
             /\ Head(chan[s]).kind = "barrier"
             /\ barrier[Other(s)] # NoBarrier
             /\ Head(chan[s]).epoch # barrier[Other(s)])
            => /\ out'.kind = "error"
               /\ out'.err = "protocol"
               /\ emitted' = emitted
       /\ emitted' # emitted =>
            \E s \in Sides :
                /\ ReadsHead(s)
                /\ Head(chan[s]).kind = "barrier"
                /\ Head(chan[s]).epoch = barrier[Other(s)]
                /\ emitted' = Append(emitted, barrier[Other(s)])]_vars

\* the first barrier of a side met the other side parked at another epoch
C18_Witness ==
    \E s \in Sides :
        /\ out.kind = "error"
        /\ out.err = "protocol"
        /\ barrier[s] # NoBarrier
        /\ barrier[s] # out.epoch
        /\ delivered[Other(s)] = {}

\* C19: a barrier whose epoch is not greater than that of an earlier barrier
\* of its side makes the aligner fail, and the epochs of the aligned barriers
\* returned are strictly increasing.
C19_EpochsStrictlyIncrease ==
    [][/\ \A s \in Sides :
            (/\ ReadsHead(s)
             /\ Head(chan[s]).kind = "barrier"
             /\ \E e \in delivered[s] : Head(chan[s]).epoch <= e)
            => /\ out'.kind = "error"
               /\ out'.err = "protocol"
               /\ emitted' = emitted
               /\ delivered' = delivered
       /\ \A i, j \in 1..Len(emitted') : i < j => emitted'[i] < emitted'[j]]_vars

\* after an aligned barrier a side repeated an epoch it had delivered
C19_Witness ==
    /\ out.kind = "error"
    /\ out.err = "protocol"
    /\ emitted # <<>>
    /\ \A s \in Sides : barrier[s] = NoBarrier
    /\ \E s \in Sides : out.epoch \in delivered[s]

C20_Row(U, op, r, seg) ==
    HasNull(hash_key_from_row_ref(r)) =>
        seg = IF outer_side_keep(jtype, U)
              THEN <<<<op, Pair(U, r, Padding)>>>>
              ELSE <<>>

\* C20: a row whose join key has a NULL component matches nothing, also when
\* the other side stores rows with the same NULL key: it yields the single
\* row (op, r | NULL) on an outer-keep side and nothing otherwise.
C20_NullKeyNeverMatches ==
    [][ChunkStep =>
        \A i \in 1..Len(out'.input) :
            C20_Row(out'.side, out'.input[i][1], out'.input[i][2], out'.segs[i])]_vars

\* the output rows of the segment that pair r of the side with m
PairRows(side, seg, r, m) == {j \in 1..Len(seg) : seg[j][2] = Pair(side, r, m)}

\* C21: an insert of a row the side already stores (same join key, pk and
\* row), the inputs having been valid so far, leaves one occurrence of the
\* row in the side's state and does not count its joined pairs twice: the
\* accumulated output holds (r | m) at most once for every row m the other
\* side stores.  Every insert emits exactly one output row per matching row
\* of the other side.
C21_DuplicateInsertCountedOnce ==
    [][(ChunkStep /\ Len(out'.input) = 1 /\ out'.input[1][1] \in InsertOps) =>
        LET side == out'.side
            r == out'.input[1][2]
        IN /\ \A m \in RowsUnder(ht[Other(side)], r) :
                Cardinality(PairRows(side, out'.segs[1], r, m)) = 1
           /\ (invalid = 0 /\ r \in RowsUnder(ht[side], r)) =>
                /\ {x \in RowsUnder(ht'[side], r) : PkOf(x) = PkOf(r)} = {r}
                /\ \A m \in StoredRows(Other(side)) :
                        Count(acc', Pair(side, r, m)) <= 1]_vars

\* the keys of the store under the pk's prefix
CellsOf(pk) ==
    {k \in DOMAIN kv : /\ Len(k) >= Len(serialize_pk(pk))
                       /\ SubSeq(k, 1, Len(serialize_pk(pk))) = serialize_pk(pk)}

\* the pks whose most recent operation was a put
LivePks == {pk \in DOMAIN latest : latest[pk].some}

\* C22: following a successful flush (and before the next put or delete) the
\* store holds exactly schema.len() cells for every pk whose most recent
\* operation was a put and no cell for a pk whose most recent operation was a
\* delete, so a full scan returns (live pks) x schema.len() entries.
C22_StoreHoldsLiveRows ==
    (mview_result = "ok" /\ memtable = EmptyMap) =>
        /\ \A pk \in DOMAIN latest :
            Cardinality(CellsOf(pk)) = IF latest[pk].some THEN MViewColumnN ELSE 0
        /\ Cardinality(DOMAIN kv) = Cardinality(LivePks) * MViewColumnN

\* a step of ManagedMViewState::flush
MViewFlushStep ==
    \/ batch' # batch
    \/ mview_result' # mview_result
    \/ (memtable # EmptyMap /\ memtable' = EmptyMap)

C24_MemtableClearedOnlyOnSuccess ==
    [][MViewFlushStep =>
        /\ mview_result' = "ok" => memtable' = EmptyMap
        /\ mview_result' # "ok" => memtable' = memtable]_vars

\* C25: for an input chunk whose UpdateDelete / UpdateInsert ops are paired,
\* every UpdateDelete of the output chunk is directly followed by an
\* UpdateInsert and every UpdateInsert directly preceded by an UpdateDelete,
\* for every join type and any number of matching rows.
C25_OutputUpdatesPaired ==
    (out.kind = "chunk" /\ UpdatesPaired(OpsOf(out.input))) =>
        UpdatesPaired(OpsOf(Flatten(out.segs)))

\* a chunk of the side was taken from the aligner
ChunkEvent(s) == recv'[s] # recv[s]

C27_BarrierForwardedUnchanged ==
    [][/\ \A s \in Sides :
            (/\ ReadsHead(s)
             /\ Head(chan[s]).kind = "barrier"
             /\ AlignStep
             /\ flush_result' = "ok")
            => /\ out'.kind = "barrier"
               /\ out'.epoch = Head(chan[s]).epoch
               /\ out'.epoch = barrier[Other(s)]
               /\ out'.mutation = Head(chan[s]).mutation
               /\ out'.mutation = MutationOf(barrier[Other(s)])
       /\ (out'.kind = "barrier" /\ out' # out) =>
            /\ AlignStep
            /\ emitted' = Append(emitted, out'.epoch)
            /\ out'.mutation = MutationOf(out'.epoch)]_vars

\* the first aligned barrier had no mutation, the second one was forwarded
\* with its stop mutation
C27_Witness ==
    /\ out.kind = "barrier"
    /\ Len(emitted) = 2
    /\ out.epoch = emitted[2]
    /\ MutationOf(emitted[1]) = NoMutation
    /\ out.mutation = Stop({})

\* Barrier::eq: the epochs and the mutations are equal (the span is not looked at)
barrier_eq(a, b) == a.epoch = b.epoch /\ a.mutation = b.mutation

\* C28: a barrier without mutation is encoded with the Nothing mutation, and
\* the message decoded from the record a message was encoded to is of the
\* same kind (chunk or barrier) and, for a barrier with curr > prev, equal to
\* it in epoch (curr and prev) and in mutation, for each shape of mutation.
C28_WireRoundTrip ==
    /\ (prost # NotYet /\ message.kind = "Barrier") =>
            /\ prost.kind = "Barrier"
            /\ (message.barrier.mutation = NoMutation
                    <=> prost.barrier.mutation.kind = "Nothing")
    /\ decoded # NotYet =>
            /\ decoded.kind = message.kind
            /\ message.kind = "Barrier" =>
                    /\ barrier_eq(decoded.barrier, message.barrier)
                    /\ decoded.barrier.epoch.curr = message.barrier.epoch.curr
                    /\ decoded.barrier.epoch.prev = message.barrier.epoch.prev
                    /\ decoded.barrier.mutation.kind = message.barrier.mutation.kind

\* an AddOutput map of two entries went over the wire in the order of the
\* second key first, and came back with another span
C28_Witness ==
    /\ decoded # NotYet
    /\ decoded.kind = "Barrier"
    /\ decoded.barrier.mutation.kind = "AddOutput"
    /\ Cardinality(DOMAIN decoded.barrier.mutation.outputs) = 2
    /\ prost.barrier.mutation.mutations[1].actor_id = 2
    /\ decoded.barrier.span # message.barrier.span
    /\ decoded.barrier.epoch.prev > 0

MessagesOf(items) == SelectSeq(items, LAMBDA r : r.ok)

\* C30: when the next of the wrapped v1 executor returns the Eof error the
\* v2 stream ends and yields no item for it; any other error is yielded as an
\* error item; and a v2 stream wrapped as v1 and back as v2 yields the
\* messages of the stream, in their order, and then ends.
C30_EofEndsStream ==
    [][compat_vars' # compat_vars =>
        /\ (~v1_result'.ok /\ v1_result'.value.code = "Eof") =>
                /\ yielded' = yielded
                /\ finished'
        /\ (~v1_result'.ok /\ v1_result'.value.code # "Eof") =>
                /\ Len(yielded') = Len(yielded) + 1
                /\ SubSeq(yielded', 1, Len(yielded)) = yielded
                /\ ~yielded'[Len(yielded')].ok
                /\ yielded'[Len(yielded')].value.cause = v1_result'.value
        /\ v1_result'.ok =>
                /\ yielded' = Append(yielded, v1_result')
                /\ ~finished'
        /\ source'.kind = "v2" =>
                /\ MessagesOf(yielded') =
                        MessagesOf(SubSeq(source'.items, 1, Len(yielded')))
                /\ finished' =>
                        /\ MessagesOf(yielded') = MessagesOf(source'.items)
                        /\ Len(yielded') = Len(source'.items)]_vars

\* a v2 stream of three messages came back whole and ended
C30_Witness ==
    /\ source.kind = "v2"
    /\ finished
    /\ Len(yielded) = MaxItems
    /\ \A i \in 1..Len(yielded) : yielded[i].ok
    /\ yielded[1] # yielded[2]
    /\ ~v1_result.ok


\* the retraction pairs of an insert of r on side U: per matched row m an
\* UpdateDelete of (NULL | m) followed by an UpdateInsert of (r | m)
NullRowsRetracted(U, r) ==
    Flatten([j \in 1..Len(MatchedRows(U, r)) |->
        <<<<"UpdateDelete", Pair(U, Padding, MatchedRows(U, r)[j])>>,
          <<"UpdateInsert", Pair(U, r, MatchedRows(U, r)[j])>>>>])

C31_Row(U, pre, op, r, seg) ==
    (/\ op \in InsertOps
     /\ outer_side_null(jtype, U)
     /\ hash_key_from_row_ref(r) \in DOMAIN pre
     /\ RowsUnder(pre, r) = {}
     /\ MatchedRows(U, r) # <<>>)
    => seg = NullRowsRetracted(U, r)

\* C31: an Insert or UpdateInsert of r on an outer-null side U whose entry for
\* r's key exists but holds no row, while the match side holds rows under the
\* key, emits the retraction pairs of a first insert; and, for valid inputs,
\* no NULL-padded row (NULL | m) is left in the accumulated output for a row
\* m of the match side whose key U holds a row for.
C31_InsertIntoEmptiedEntryRetracts ==
    [][ChunkStep =>
        /\ \A i \in 1..Len(out'.input) :
            C31_Row(out'.side, TableAfter(i - 1),
                    out'.input[i][1], out'.input[i][2], out'.segs[i])
        /\ invalid' = 0 =>
            \A U \in Sides : outer_side_null(jtype, U) =>
                \A m \in cur'[Other(U)] :
                    Matches(m, cur'[U]) # {} => Count(acc', Pair(U, Padding, m)) = 0]_vars

C32_Row(U, pre, post, op, r, seg) ==
    (/\ hash_key_from_row_ref(r) \in DOMAIN ht[Other(U)]
     /\ MatchedRows(U, r) = <<>>)
    => /\ seg = IF outer_side_keep(jtype, U)
                THEN <<<<op, Pair(U, r, Padding)>>>>
                ELSE <<>>
       /\ op \in InsertOps =>
            RowsUnder(post, r) = {x \in RowsUnder(pre, r) : PkOf(x) # PkOf(r)} \cup {r}
       /\ op \in DeleteOps =>
            RowsUnder(post, r) = {x \in RowsUnder(pre, r) : PkOf(x) # PkOf(r)}

\* C32: when the match side's entry for the key of the incoming row r exists
\* but holds no row, the op is applied to the update side's state and the
\* output is the single row (op, r | NULL) on an outer-keep side and nothing
\* otherwise, as when the match side has no entry for the key.
C32_EmptyEntryIsAbsent ==
    [][ChunkStep =>
        \A i \in 1..Len(out'.input) :
            C32_Row(out'.side, TableAfter(i - 1), TableAfter(i),
                    out'.input[i][1], out'.input[i][2], out'.segs[i])]_vars


\* the rows of the output chunk of the step: what the builder holds at finish
NewChunkRows ==
    Appended(<<>>, jtype, out'.side, ht[out'.side], ht[Other(out'.side)],
             store[out'.side], out'.input)

\* the number of output rows produced for the input rows before row i
RECURSIVE Offset(_, _)
Offset(segs, i) == IF i <= 1 THEN 0 ELSE Offset(segs, i - 1) + Len(segs[i - 1])

\* the row retracts or restores the NULL-padded rows of the matched rows
Retracts(U, pre, post, op, r) ==
    /\ outer_side_null(jtype, U)
    /\ MatchedRows(U, r) # <<>>
    /\ \/ op \in InsertOps /\ hash_key_from_row_ref(r) \notin DOMAIN pre
       \/ /\ op \in DeleteOps
          /\ hash_key_from_row_ref(r) \in DOMAIN pre
          /\ RowsUnder(post, r) = {}

C33_Row(U, pre, post, op, r, seg) ==
    Retracts(U, pre, post, op, r) =>
        /\ Len(seg) = 2 * Len(MatchedRows(U, r))
        /\ \A j \in 1..Len(MatchedRows(U, r)) :
            /\ seg[2 * j - 1][1] = "UpdateDelete"
            /\ seg[2 * j][1] = "UpdateInsert"
            /\ {seg[2 * j - 1][2], seg[2 * j][2]} =
                    {Pair(U, r, MatchedRows(U, r)[j]), Pair(U, Padding, MatchedRows(U, r)[j])}

\* C33: the rows of an output chunk follow the input chunk's row order: the
\* rows produced for input row i come, in the order they were produced, right
\* after the rows produced for the input rows before i, and the chunk holds
\* no other row; a row that retracts or restores NULL-padded rows produces,
\* per matched row in the order of values(), an UpdateDelete directly
\* followed by its UpdateInsert.
C33_OutputFollowsInputOrder ==
    [][ChunkStep =>
        /\ Len(NewChunkRows) = Offset(out'.segs, Len(out'.segs) + 1)
        /\ \A i \in 1..Len(out'.input) :
            /\ \A j \in 1..Len(out'.segs[i]) :
                    NewChunkRows[Offset(out'.segs, i) + j] = out'.segs[i][j]
            /\ C33_Row(out'.side, TableAfter(i - 1), TableAfter(i),
                       out'.input[i][1], out'.input[i][2], out'.segs[i])]_vars

\* FullOuter: the first row of a chunk retracted two NULL-padded rows and the
\* second row of the chunk, of another key, produced its own NULL-padded row
C33_Witness ==
    /\ jtype = FullOuter
    /\ invalid = 0
    /\ out.kind = "chunk"
    /\ Len(out.input) = 2
    /\ Len(out.segs[1]) = 4
    /\ out.segs[1][1][1] = "UpdateDelete"
    /\ out.segs[1][2][1] = "UpdateInsert"
    /\ Len(out.segs[2]) = 1
    /\ out.segs[2][1][2] = Pair(out.side, out.input[2][2], Padding)


\* C34: after any sequence of insert, remove and flush on one entry,
\* values() yields exactly the rows of the reference map (upsert on insert,
\* erase on remove), and after a flush the store holds exactly those rows; so
\* a pk that is in the store, is inserted again and then removed before the
\* next flush is not yielded and is not in the store after that flush.
C34_EntryRefinesReferenceMap ==
    /\ last_call = "values" => Range(values_result.rows) = reference
    /\ last_call = "flush" => keyspace_rows = reference

\* C35: is_empty evaluated right after remove(pk), with no values() scan in
\* between, answers true exactly when the entry's materialized row set (the
\* persisted rows overlaid with the pending inserts and tombstones) holds no
\* row, whether the entry is fully cached or only partly in memory.
C35_IsEmptyNeverStale ==
    last_call = "remove" =>
        (is_empty_result = "true" <=> Materialized(entry, keyspace_rows) = {})


\* C36: every Epoch that Epoch::new, Epoch::new_test_epoch, Epoch::default
\* or Epoch::inc on such an epoch returns has curr > prev, and inc advances
\* curr and prev by one each.
C36_EpochCurrAbovePrev ==
    [][epoch_vars' # epoch_vars =>
        /\ epoch_value'.kind = "epoch" => epoch_value'.curr > epoch_value'.prev
        /\ (epoch_call' = "inc" /\ epoch_value'.kind = "epoch") =>
                /\ epoch_value'.curr = epoch_value.curr + 1
                /\ epoch_value'.prev = epoch_value.prev + 1]_vars


\* the join keys of the rows of a chunk
KeysOf(chunk) == {hash_key_from_row_ref(chunk[i][2]) : i \in 1..Len(chunk)}

\* C37: processing a chunk of side U leaves the match side's map as it was
\* (no entry created or deleted, no row inserted or removed), writes nothing
\* to the store and changes in U's map only the entries of the chunk's keys;
\* processing an aligned barrier changes the row set of no entry of either
\* side and creates or deletes no entry.
C37_ChunkTouchesOnlyUpdateSide ==
    [][/\ ChunkStep =>
            /\ ht'[Other(out'.side)] = ht[Other(out'.side)]
            /\ store' = store
            /\ \A k \in DOMAIN ht[out'.side] :
                    /\ k \in DOMAIN ht'[out'.side]
                    /\ k \notin KeysOf(out'.input) => ht'[out'.side][k] = ht[out'.side][k]
       /\ AlignStep =>
            \A s \in Sides :
                /\ DOMAIN ht'[s] = DOMAIN ht[s]
                /\ \A k \in DOMAIN ht[s] : ht'[s][k].cached = ht[s][k].cached]_vars

\* a chunk was joined with rows of the match side after an aligned barrier
\* had written both sides to the store
C37_Witness ==
    /\ out.kind = "chunk"
    /\ Len(emitted) > 0
    /\ Len(out.input) > 0
    /\ out.segs[1] # <<>>
    /\ store[Left] # {}
    /\ store[Right] # {}
    /\ StoredRows(out.side) # store[out.side]
    /\ StoredRows(Other(out.side)) = store[Other(out.side)]


\* C38: for the executor's join type T and every side S, outer_side_null(T, S)
\* equals outer_side_keep(T, opposite side of S); both are false on both sides
\* for Inner and true on both sides for FullOuter; keep is true only on Left
\* for LeftOuter and only on Right for RightOuter.
C38_KeepAndNullAreMirrored ==
    /\ \A S \in Sides : outer_side_null(jtype, S) = outer_side_keep(jtype, Other(S))
    /\ jtype = Inner =>
            \A S \in Sides : ~outer_side_keep(jtype, S) /\ ~outer_side_null(jtype, S)
    /\ jtype = FullOuter =>
            \A S \in Sides : outer_side_keep(jtype, S) /\ outer_side_null(jtype, S)
    /\ jtype = LeftOuter => \A S \in Sides : outer_side_keep(jtype, S) <=> S = Left
    /\ jtype = RightOuter => \A S \in Sides : outer_side_keep(jtype, S) <=> S = Right

\* RightOuter: a right row was NULL-padded (keep on Right) and the first left
\* row of its key retracted the padded row (null on Left)
C38_Witness ==
    /\ jtype = RightOuter
    /\ invalid = 0
    /\ out.kind = "chunk"
    /\ out.side = Left
    /\ Len(out.input) = 1
    /\ Len(out.segs[1]) = 2
    /\ out.segs[1][1] = <<"UpdateDelete", Joined(Padding, CHOOSE r \in cur[Right] : TRUE)>>
    /\ out.segs[1][2] = <<"UpdateInsert", Joined(out.input[1][2], CHOOSE r \in cur[Right] : TRUE)>>
    /\ Cardinality(cur[Right]) = 1


\* the side's channel holds the barrier of the epoch
BarrierQueued(side, e) ==
    \E i \in DOMAIN chan[side] : chan[side][i].kind = "barrier" /\ chan[side][i].epoch = e

\* the chunks the side sent before its barrier of the epoch are all read
ChunksBeforeRead(side, e) ==
    \A i \in DOMAIN chan[side] : chan[side][i].kind = "chunk" => chan[side][i].after >= e

MirrorType(T) ==
    IF T = LeftOuter THEN RightOuter ELSE IF T = RightOuter THEN LeftOuter ELSE T

\* the output row with its left and right column blocks exchanged
SwapBlocks(row) ==
    SubSeq(row, SideColumnN + 1, new_column_n) \o SubSeq(row, 1, SideColumnN)

\* the mirrored run's step for the chunk of the step: the join of the
\* mirrored type reads the chunk on the opposite side, the two hash tables
\* and stores exchanged
MirrorStep ==
    JoinChunk(MirrorType(jtype), Other(out'.side), ht[out'.side], ht[Other(out'.side)],
              store[out'.side], out'.input)

\* C40: a join of type T and the join of the mirrored type (RightOuter for
\* LeftOuter and conversely, Inner and FullOuter for themselves) fed the same
\* events with the two inputs exchanged stay in exchanged states and return,
\* for every chunk, the same ops in the same order on the same rows with the
\* left and right column blocks exchanged.
C40_RightOuterMirrorsLeftOuter ==
    [][ChunkStep =>
        /\ MirrorStep.ht = ht'[out'.side]
        /\ Len(MirrorStep.segs) = Len(out'.segs)
        /\ \A i \in 1..Len(out'.segs) :
            /\ Len(MirrorStep.segs[i]) = Len(out'.segs[i])
            /\ \A j \in 1..Len(out'.segs[i]) :
                /\ MirrorStep.segs[i][j][1] = out'.segs[i][j][1]
                /\ MirrorStep.segs[i][j][2] = SwapBlocks(out'.segs[i][j][2])]_vars

\* LeftOuter: the delete of the only right row of a key restored the
\* NULL-padded row of the left row it matched
C40_Witness ==
    /\ jtype = LeftOuter
    /\ invalid = 0
    /\ out.kind = "chunk"
    /\ out.side = Right
    /\ Len(out.input) = 1
    /\ out.input[1][1] = "Delete"
    /\ Len(out.segs[1]) = 2
    /\ out.segs[1][1] = <<"UpdateDelete", Joined(CHOOSE l \in cur[Left] : TRUE, out.input[1][2])>>
    /\ out.segs[1][2] = <<"UpdateInsert", Joined(CHOOSE l \in cur[Left] : TRUE, Padding)>>
    /\ Cardinality(cur[Left]) = 1

====
